---- MODULE Spec2Model ----
(***************************************************************************)
(* Model of the flight price tracker core (src/processor.py) and of the   *)
(* pipeline that drives it (src/orchestrator.py).                         *)
(*                                                                         *)
(* Part 1: the Price History Tracker (detect_price_drop and the           *)
(*         price-history file it reads, modifies and writes).              *)
(***************************************************************************)
EXTENDS Integers, Sequences, FiniteSets, TLC

(***************************************************************************)
(* Bounds                                                                  *)
(***************************************************************************)
\* number of serialized detect_price_drop calls explored
MaxCalls == 3
\* prices range over 0..MaxPrice
MaxPrice == 2

Dates == {"2026-03-20", "2026-03-21"}
Prices == 0..MaxPrice

(***************************************************************************)
(* JSON values a date can be mapped to in the file: a number, null, or a  *)
(* value float() rejects (a non-numeric string, a list, ...).             *)
(***************************************************************************)
JsonNull == -1
JsonNonNumeric == -2
JsonValues == Prices \cup {JsonNull, JsonNonNumeric}

\* Python's None as the result of dict.get on a missing key
None == -1

EmptyMap == [d \in {} |-> 0]

\* the mappings from dates to values a file can hold
MapsOver(vals) == UNION {[S -> vals] : S \in SUBSET Dates}

(***************************************************************************)
(* The file price_history.json.                                            *)
(*   exists   : os.path.exists(PRICE_HISTORY_FILE)                         *)
(*   readable : open(..., "r") succeeds                                    *)
(*   kind     : "map"     the text is a JSON object                        *)
(*              "nonmap"  the text is valid JSON but not an object         *)
(*              "invalid" the text is not valid JSON (also: empty file)    *)
(*   map      : the object's members when kind = "map"                     *)
(***************************************************************************)
AbsentFile == [exists |-> FALSE, readable |-> FALSE, kind |-> "invalid", map |-> EmptyMap]

FileWith(readable, kind, map) ==
    [exists |-> TRUE, readable |-> readable, kind |-> kind, map |-> map]

InitialFiles ==
    {AbsentFile}
    \cup {FileWith(r, "invalid", EmptyMap) : r \in BOOLEAN}
    \cup {FileWith(r, "nonmap", EmptyMap) : r \in BOOLEAN}
    \cup {FileWith(r, "map", m) : r \in BOOLEAN, m \in MapsOver(JsonValues)}

\* outcomes of open(PRICE_HISTORY_FILE, "w") followed by json.dump
WriteOutcomes == {"ok", "open_fails", "dump_fails"}

VARIABLES
    priceFile,   \* the file price_history.json
    calls,       \* number of detect_price_drop calls made
    writes,      \* number of completed writes of the file
    last,        \* the last call: its arguments, the file before it, its result
    recent,      \* per date, the price passed by the most recent call (None: no call)
    initFile,    \* the file as it was before the first call
    clean,       \* the file started well-formed and no write has failed
    allDays,     \* the all_days argument of compute_best_day
    summary,     \* what compute_best_day returned (Pending before the call)
    payload,     \* the raw argument of extract_flights
    extracted,   \* what extract_flights returned (Pending before the call)
    responses,   \* per requested date, what client.search_flights returns
    output,      \* what run_pipeline_llm_routed returned (Pending before the run)
    durIn,       \* a duration: hours, minutes and the form it is written in
    durOut,      \* what parse_duration_to_minutes returned for it
    tableIn,     \* the arguments of make_table
    tableOut,    \* the table make_table returned
    dailyRaw,    \* the daily_raw argument of build_full_report (items in insertion order)
    reportOut,   \* what build_full_report and build_daily_sections returned
    concFile,    \* the price-history file shared by two unserialized invocations
    procs,       \* the two invocations of detect_price_drop: position and local history
    client,      \* the AmadeusClient object and the progress of its search_flights call
    clientLog    \* what the calls of search_flights made so far did

trackerVars == <<priceFile, calls, writes, last, recent, initFile, clean>>
rankVars == <<allDays, summary>>
normVars == <<payload, extracted>>
pipeVars == <<responses, output>>
durVars == <<durIn, durOut>>
tableVars == <<tableIn, tableOut>>
reportVars == <<dailyRaw, reportOut>>
concVars == <<concFile, procs>>
clientVars == <<client, clientLog>>
vars == <<trackerVars, rankVars, normVars, pipeVars, durVars, tableVars, reportVars,
          concVars, clientVars>>

Pending == [status |-> "pending"]

\* a load that ignores what the file holds
LoadNothing(f) == [kind |-> "map", map |-> EmptyMap]

(***************************************************************************)
(* _load_price_history: {} when the file is absent, unreadable or not     *)
(* valid JSON; otherwise whatever json.load returns.                       *)
(***************************************************************************)
LoadPriceHistory(f) ==
    IF ~f.exists THEN [kind |-> "map", map |-> EmptyMap]
    ELSE IF ~f.readable \/ f.kind = "invalid" THEN [kind |-> "map", map |-> EmptyMap]
    ELSE [kind |-> f.kind, map |-> f.map]

\* history.get(date_str)
HistoryGet(map, d) == IF d \in DOMAIN map THEN map[d] ELSE None

\* history[date_str] = float(current_price), when the date is guarded by a lower price
HistoryPutIfLower(map, d, p) ==
    [x \in DOMAIN map \cup {d} |->
        IF x = d
        THEN IF d \in DOMAIN map /\ map[d] \in Prices /\ map[d] < p THEN map[d] ELSE p
        ELSE map[x]]

\* history[date_str] = float(current_price)
HistoryPut(map, d, p) ==
    [x \in DOMAIN map \cup {d} |-> IF x = d THEN p ELSE map[x]]

(***************************************************************************)
(* _save_price_history: open for writing truncates, json.dump writes.     *)
(*   "ok"          the file now holds the mapping                          *)
(*   "open_fails"  the file is untouched, the error propagates             *)
(*   "dump_fails"  the file was truncated and holds a partial text         *)
(***************************************************************************)
SavePriceHistory(f, map, wr) ==
    CASE wr = "ok" ->
            [exists |-> TRUE,
             readable |-> IF f.exists THEN f.readable ELSE TRUE,
             kind |-> "map", map |-> map]
      [] wr = "open_fails" -> f
      [] wr = "dump_fails" ->
            [exists |-> TRUE,
             readable |-> IF f.exists THEN f.readable ELSE TRUE,
             kind |-> "invalid", map |-> EmptyMap]

\* current_price <= prev_price
IsDropOrEqual(cur, prev) == cur <= prev

\* current_price < prev_price
IsDrop(cur, prev) == cur < prev

NoneResult == [kind |-> "none"]
Raised(exc) == [kind |-> "raised", exc |-> exc]
\* the f-string of the drop notification: date, was, now, difference
DropMessage(d, prev, cur) ==
    [kind |-> "message", date |-> d, was |-> prev, now |-> cur, diff |-> prev - cur]

(***************************************************************************)
(* detect_price_drop(date_str, current_price): the value it returns, or   *)
(* the exception it raises, and the file it leaves.                        *)
(***************************************************************************)
DetectResult(f, d, p, wr) ==
    LET history == LoadPriceHistory(f) IN
    IF history.kind # "map" THEN Raised("AttributeError")
    ELSE IF wr # "ok" THEN Raised("OSError")
    ELSE LET prev == HistoryGet(history.map, d) IN
         IF prev = None THEN NoneResult
         ELSE IF prev = JsonNonNumeric THEN Raised("ValueError")
         ELSE IF IsDrop(p, prev) THEN DropMessage(d, prev, p)
         ELSE NoneResult

DetectFile(f, d, p, wr) ==
    LET history == LoadPriceHistory(f) IN
    IF history.kind # "map" THEN f
    ELSE SavePriceHistory(f, HistoryPut(history.map, d, p), wr)

WellFormedFile(f) ==
    \/ ~f.exists
    \/ f.readable /\ f.kind = "map" /\ \A d \in DOMAIN f.map : f.map[d] \in Prices

NoCall == [d |-> "", p |-> 0, wr |-> "ok", before |-> AbsentFile,
           seenBefore |-> None, ret |-> NoneResult]

Init ==
    /\ priceFile \in InitialFiles
    /\ initFile = priceFile
    /\ calls = 0
    /\ writes = 0
    /\ last = NoCall
    /\ recent = [d \in Dates |-> None]
    /\ clean = WellFormedFile(priceFile)
    /\ allDays = <<>>
    /\ summary = Pending
    /\ payload = [hasData |-> FALSE]
    /\ extracted = Pending
    /\ responses = <<>>
    /\ output = Pending
    /\ durIn = <<>> /\ durOut = Pending
    /\ tableIn = <<>> /\ tableOut = Pending
    /\ dailyRaw = <<>> /\ reportOut = Pending
    /\ concFile = <<>> /\ procs = <<>>
    /\ client = <<>> /\ clientLog = <<>>

DetectPriceDrop(d, p, wr) ==
    /\ calls < MaxCalls
    /\ calls' = calls + 1
    /\ priceFile' = DetectFile(priceFile, d, p, wr)
    /\ writes' = IF LoadPriceHistory(priceFile).kind = "map" /\ wr = "ok"
                 THEN writes + 1 ELSE writes
    /\ last' = [d |-> d, p |-> p, wr |-> wr, before |-> priceFile,
                seenBefore |-> recent[d], ret |-> DetectResult(priceFile, d, p, wr)]
    /\ recent' = [recent EXCEPT ![d] = p]
    /\ clean' = (clean /\ wr = "ok")
    /\ UNCHANGED <<initFile, rankVars, normVars, pipeVars, durVars, tableVars, reportVars,
                   concVars, clientVars>>

Next == \E d \in Dates, p \in Prices, wr \in WriteOutcomes : DetectPriceDrop(d, p, wr)

Spec == Init /\ [][Next]_vars

(***************************************************************************)
(* Part 2: texts, the Duration Parser and the Ranking Engine.              *)
(*                                                                         *)
(* A text is a sequence of one-character strings.                          *)
(***************************************************************************)
Digits == <<"0", "1", "2", "3", "4", "5", "6", "7", "8", "9">>

IsDigit(c) == \E i \in 1..10 : Digits[i] = c
DigitVal(c) == (CHOOSE i \in 1..10 : Digits[i] = c) - 1

UpperLetters == <<"A", "B", "C", "D", "E", "F", "G", "H", "I", "J", "K", "L", "M",
                  "N", "O", "P", "Q", "R", "S", "T", "U", "V", "W", "X", "Y", "Z">>
LowerLetters == <<"a", "b", "c", "d", "e", "f", "g", "h", "i", "j", "k", "l", "m",
                  "n", "o", "p", "q", "r", "s", "t", "u", "v", "w", "x", "y", "z">>

\* str.lower() of one character
LowerChar(c) ==
    IF \E i \in 1..26 : UpperLetters[i] = c
    THEN LowerLetters[CHOOSE i \in 1..26 : UpperLetters[i] = c]
    ELSE c

Lower(s) == [i \in 1..Len(s) |-> LowerChar(s[i])]

\* s.replace(" ", "")
RemoveSpaces(s) == SelectSeq(s, LAMBDA c : c # " ")

\* c in s
Contains(s, c) == \E i \in 1..Len(s) : s[i] = c

\* index of the first c in s, 0 when there is none
IndexOf(s, c) == IF Contains(s, c) THEN CHOOSE i \in 1..Len(s) : s[i] = c /\ \A j \in 1..(i-1) : s[j] # c ELSE 0

\* s.split(c)[0]
SplitHead(s, c) == IF Contains(s, c) THEN SubSeq(s, 1, IndexOf(s, c) - 1) ELSE s

\* what follows the first c in s
AfterFirst(s, c) == SubSeq(s, IndexOf(s, c) + 1, Len(s))

\* s.split(c)[0] taken where s.split(c)[1] is meant
SplitSecondFromStart(s, c) == SplitHead(s, c)

\* s.split(c)[1], for an s that contains c
SplitSecond(s, c) == SplitHead(AfterFirst(s, c), c)

RECURSIVE DigitsValue(_)
DigitsValue(s) == IF s = <<>> THEN 0 ELSE 10 * DigitsValue(SubSeq(s, 1, Len(s) - 1)) + DigitVal(s[Len(s)])

AllDigits(s) == s # <<>> /\ \A i \in 1..Len(s) : IsDigit(s[i])

\* int(s): an optional sign and decimal digits, ValueError otherwise
PyInt(s) ==
    IF AllDigits(s) THEN [ok |-> TRUE, val |-> DigitsValue(s)]
    ELSE IF s # <<>> /\ s[1] \in {"+", "-"} /\ AllDigits(Tail(s))
         THEN [ok |-> TRUE, val |-> IF s[1] = "-" THEN 0 - DigitsValue(Tail(s)) ELSE DigitsValue(Tail(s))]
    ELSE [ok |-> FALSE, val |-> 0]

(***************************************************************************)
(* parse_duration_to_minutes: ok = FALSE stands for the ValueError of int  *)
(***************************************************************************)
ParseDurationToMinutes(duration_str) ==
    LET parts0 == RemoveSpaces(Lower(duration_str))
        hasH   == Contains(parts0, "h")
        h      == SplitHead(parts0, "h")
        hours  == IF hasH /\ h # <<>> THEN PyInt(h) ELSE [ok |-> TRUE, val |-> 0]
        parts1 == IF hasH THEN SplitSecond(parts0, "h") ELSE parts0
        hasM   == Contains(parts1, "m")
        m      == SplitHead(parts1, "m")
        minutes == IF hasM /\ m # <<>> THEN PyInt(m) ELSE [ok |-> TRUE, val |-> 0]
    IN  IF ~hours.ok THEN [ok |-> FALSE, val |-> 0]
        ELSE IF ~minutes.ok THEN [ok |-> FALSE, val |-> 0]
        ELSE [ok |-> TRUE, val |-> hours.val * 60 + minutes.val]

(***************************************************************************)
(* Flight records (the dicts extract_flights produces).  price is in whole *)
(* currency units, layover_hours in tenths of an hour.                     *)
(***************************************************************************)
\* the em dash with its two spaces that joins carrier code and carrier name
Dash == " -- "

\* airline_code, Dash, airline_name when the name is known, else airline_code: the
\* sequence of its parts
AirlineText(airline_code, airline_name) ==
    IF airline_name # "" THEN <<airline_code, Dash, airline_name>> ELSE <<airline_code>>

Flt(airline, price, duration, stops, city, lay) ==
    [airline |-> airline, price |-> price, duration |-> duration, stops |-> stops,
     layover_city |-> city, layover_hours |-> lay,
     departure |-> "2026-03-20T08:00:00", arrival |-> "2026-03-21T06:00:00"]

\* the dates of the days handed to the engine, in caller order
DayDates == <<"2026-03-20", "2026-03-21", "2026-03-22", "2026-03-23", "2026-03-24",
              "2026-03-25", "2026-03-26", "2026-03-27", "2026-03-28", "2026-03-29",
              "2026-03-30", "2026-03-31">>

\* sorted(): an element goes before the elements whose key is not smaller
InsertBeforeEqual(sorted, x, key) ==
    LET n == Len(sorted)
        k == Cardinality({i \in 1..n : sorted[i][key] < x[key]})
    IN  SubSeq(sorted, 1, k) \o <<x>> \o SubSeq(sorted, k + 1, n)

\* sorted(): an element goes after the elements whose key is not greater
InsertStable(sorted, x, key) ==
    LET n == Len(sorted)
        k == Cardinality({i \in 1..n : sorted[i][key] <= x[key]})
    IN  SubSeq(sorted, 1, k) \o <<x>> \o SubSeq(sorted, k + 1, n)

\* sorted(s, key=lambda x: x[key]): stable, ascending
RECURSIVE SortedBy(_, _)
SortedBy(s, key) ==
    IF s = <<>> THEN <<>>
    ELSE InsertStable(SortedBy(SubSeq(s, 1, Len(s) - 1), key), s[Len(s)], key)

\* the running best is replaced also on equality
BeatsOrTies(candidate, best) == candidate <= best

\* candidate < running best (processor.py lines 317, 333, 350)
Beats(candidate, best) == candidate < best

\* s[:n]
Take(s, n) == SubSeq(s, 1, IF Len(s) < n THEN Len(s) ELSE n)

\* top-N size
TopN == 3

NoEntry == [present |-> FALSE]

\* the helpers of one flight: price_val, layover_val, duration_val
Normalize(f) ==
    [f |-> f, price_val |-> f.price, layover_val |-> f.layover_hours,
     duration_val |-> ParseDurationToMinutes(f.duration).val]

\* price/1000 + duration/1000 + layover/100, in thousandths: the layover weighted
\* a tenth of what it is
ScoreLayoverHundredth(nf) == nf.price_val + nf.duration_val + nf.layover_val

\* price/1000 + duration/1000 + layover/10, in thousandths (layover in tenths of an hour)
Score(nf) == nf.price_val + nf.duration_val + 10 * nf.layover_val

\* the scored_flights entry of a flight; enc is its position in encounter order
ScoredEntry(date, nf, enc) ==
    [date |-> date, score |-> Score(nf), price |-> nf.price_val, airline |-> nf.f.airline,
     duration |-> nf.f.duration, layover_city |-> nf.f.layover_city,
     layover_hours |-> nf.layover_val, enc |-> enc]

CheapestEntry(date, nf) ==
    [present |-> TRUE, date |-> date, price |-> nf.price_val, airline |-> nf.f.airline,
     layover_city |-> nf.f.layover_city, layover_hours |-> nf.layover_val]

ShortestDurationEntry(date, nf) ==
    [present |-> TRUE, date |-> date, price |-> nf.price_val, airline |-> nf.f.airline,
     duration |-> nf.f.duration, duration_minutes |-> nf.duration_val,
     layover_city |-> nf.f.layover_city, layover_hours |-> nf.layover_val]

ShortestLayoverEntry(date, nf) ==
    [present |-> TRUE, date |-> date, price |-> nf.price_val, airline |-> nf.f.airline,
     layover_city |-> nf.f.layover_city, layover_hours |-> nf.layover_val]

\* the state of compute_best_day before the first day
RankStart ==
    [raised |-> FALSE, cheapest |-> NoEntry, shortest_duration |-> NoEntry,
     shortest_layover |-> NoEntry, scored_flights |-> <<>>]

\* one iteration of "for day in all_days"
RankDay(acc, day) ==
    LET date == day.date
        flights == day.flights
        norm_flights == [i \in 1..Len(flights) |-> Normalize(flights[i])]
        parsed == \A i \in 1..Len(flights) : ParseDurationToMinutes(flights[i].duration).ok
        cheapest_flight == SortedBy(norm_flights, "price_val")[1]
        shortest_duration_flight == SortedBy(norm_flights, "duration_val")[1]
        shortest_layover_flight == SortedBy(norm_flights, "layover_val")[1]
        base == Len(acc.scored_flights)
    IN  IF acc.raised \/ flights = <<>> THEN acc
        ELSE IF ~parsed THEN [acc EXCEPT !.raised = TRUE]
        ELSE [raised |-> FALSE,
              cheapest |->
                 IF ~acc.cheapest.present \/ Beats(cheapest_flight.price_val, acc.cheapest.price)
                 THEN CheapestEntry(date, cheapest_flight) ELSE acc.cheapest,
              shortest_duration |->
                 IF \/ ~acc.shortest_duration.present
                    \/ Beats(shortest_duration_flight.duration_val,
                             acc.shortest_duration.duration_minutes)
                 THEN ShortestDurationEntry(date, shortest_duration_flight)
                 ELSE acc.shortest_duration,
              shortest_layover |->
                 IF \/ ~acc.shortest_layover.present
                    \/ Beats(shortest_layover_flight.layover_val,
                             acc.shortest_layover.layover_hours)
                 THEN ShortestLayoverEntry(date, shortest_layover_flight)
                 ELSE acc.shortest_layover,
              scored_flights |->
                 acc.scored_flights \o
                 [i \in 1..Len(flights) |-> ScoredEntry(date, norm_flights[i], base + i)]]

RECURSIVE RankDays(_, _)
RankDays(acc, days) ==
    IF days = <<>> THEN acc ELSE RankDays(RankDay(acc, Head(days)), Tail(days))

\* the parts of text_summary, the cheapest one added without its test
TextSummaryPartsUnguarded(acc) ==
    <<"Cheapest Day">>
    \o (IF acc.shortest_duration.present THEN <<"Shortest Duration">> ELSE <<>>)
    \o (IF acc.shortest_layover.present THEN <<"Shortest Layover">> ELSE <<>>)

\* the parts of text_summary, one per present category
TextSummaryParts(acc) ==
    (IF acc.cheapest.present THEN <<"Cheapest Day">> ELSE <<>>)
    \o (IF acc.shortest_duration.present THEN <<"Shortest Duration">> ELSE <<>>)
    \o (IF acc.shortest_layover.present THEN <<"Shortest Layover">> ELSE <<>>)

(***************************************************************************)
(* compute_best_day(all_days)                                              *)
(***************************************************************************)
ComputeBestDay(all_days) ==
    LET acc == RankDays(RankStart, all_days) IN
    IF acc.raised THEN [status |-> "raised", exc |-> "ValueError"]
    ELSE [status |-> "returned",
          cheapest |-> acc.cheapest,
          shortest_duration |-> acc.shortest_duration,
          shortest_layover |-> acc.shortest_layover,
          top3_overall |-> Take(SortedBy(acc.scored_flights, "score"), TopN),
          text_summary |-> TextSummaryParts(acc)]

(***************************************************************************)
(* Specification of the Ranking Engine: compute_best_day applied to        *)
(* bounded inputs.                                                         *)
(***************************************************************************)
\* days handed to the engine
MaxDays == 2
\* flights per day
MaxPerDay == 2

Dur_20m == <<"2", "0", "m">>
Dur_10m == <<"1", "0", "m">>
Dur_5m == <<"5", "m">>
Dur_1h == <<"1", "h", " ">>
Dur_1h0m == <<"1", "h", " ", "0", "m">>
Dur_0m == <<"0", "m">>
\* what extract_flights renders for the ISO duration P1DT2H30M
Dur_bad == <<"p", "1", "d", "t", "2", "h", " ", "3", "0", "m">>

\* three flights of equal score, one longer flight, one with an unparsable duration
RankPool ==
    { Flt(AirlineText("EY", "Etihad Airways"), 10, Dur_20m, 0, "", 0),
      Flt(AirlineText("AC", "Air Canada"), 20, Dur_10m, 0, "", 0),
      Flt(AirlineText("QR", ""), 5, Dur_5m, 1, "DOH", 2),
      Flt(AirlineText("LH", ""), 5, Dur_1h, 1, "FRA", 1),
      Flt(AirlineText("EK", ""), 1, Dur_bad, 1, "DXB", 3) }

SeqsUpTo(S, n) == UNION {[1..k -> S] : k \in 0..n}

DaysOf(fs) == [i \in 1..Len(fs) |-> [date |-> DayDates[i], flights |-> fs[i]]]

PricedFlt(name, price) == Flt(AirlineText(name, ""), price, Dur_0m, 0, "", 0)

\* days priced [100, 50, 200], [300], [10]
ExampleCheapest ==
    DaysOf(<< <<PricedFlt("A", 100), PricedFlt("B", 50), PricedFlt("C", 200)>>,
              <<PricedFlt("D", 300)>>,
              <<PricedFlt("E", 10)>> >>)

\* scores 0.5, 0.5, 0.3 in encounter order A, B, C
ExampleTop3 ==
    DaysOf(<< <<PricedFlt("A", 500), Flt(AirlineText("B", ""), 440, Dur_1h0m, 0, "", 0)>>,
              <<PricedFlt("C", 300)>> >>)

RankInputs ==
    {DaysOf(fs) : fs \in SeqsUpTo(SeqsUpTo(RankPool, MaxPerDay), MaxDays)}
    \cup {ExampleCheapest, ExampleTop3}

TrackerIdle ==
    /\ priceFile = AbsentFile
    /\ initFile = AbsentFile
    /\ calls = 0
    /\ writes = 0
    /\ last = NoCall
    /\ recent = [d \in Dates |-> None]
    /\ clean = TRUE

NormalizerIdle ==
    /\ payload = [hasData |-> FALSE]
    /\ extracted = Pending

PipelineIdle ==
    /\ responses = <<>>
    /\ output = Pending

DurationIdle == durIn = <<>> /\ durOut = Pending

TableIdle == tableIn = <<>> /\ tableOut = Pending

ReportIdle == dailyRaw = <<>> /\ reportOut = Pending

ConcurrentIdle == concFile = <<>> /\ procs = <<>>

ClientIdle == client = <<>> /\ clientLog = <<>>

InitRanking ==
    /\ TrackerIdle
    /\ NormalizerIdle
    /\ PipelineIdle
    /\ DurationIdle /\ TableIdle /\ ReportIdle /\ ConcurrentIdle /\ ClientIdle
    /\ allDays \in RankInputs
    /\ summary = Pending

ComputeBestDayCall ==
    /\ summary = Pending
    /\ summary' = ComputeBestDay(allDays)
    /\ UNCHANGED <<trackerVars, normVars, pipeVars, allDays, durVars, tableVars, reportVars,
                   concVars, clientVars>>

NextRanking == ComputeBestDayCall

SpecRanking == InitRanking /\ [][NextRanking]_vars

(***************************************************************************)
(* Part 3: the Flight Normalizer (extract_flights).                        *)
(*                                                                         *)
(* An offer is [price, itineraries]; an itinerary [duration, segments]; a  *)
(* segment [carrierCode, depAt, arrAt, arrIata].  Absent stands for a key  *)
(* the provider left out.                                                  *)
(***************************************************************************)
Absent == "<absent>"

\* offer["price"]["total"]: left out, a text float() rejects, or a number
NoPrice == [kind |-> "absent", val |-> 0]
BadPrice == [kind |-> "text", val |-> 0]
Price(n) == [kind |-> "number", val |-> n]

Seg(code, depAt, arrAt, arrIata) ==
    [carrierCode |-> code, depAt |-> depAt, arrAt |-> arrAt, arrIata |-> arrIata]

Itin(duration, segments) == [duration |-> duration, segments |-> segments]

Offer(price, itineraries) == [price |-> price, itineraries |-> itineraries]

\* datetime.strptime(text, "%Y-%m-%dT%H:%M:%S"), in minutes since 2026-03-20T00:00:00
Strptime(text) ==
    CASE text = "2026-03-20T08:00:00" -> [ok |-> TRUE, val |-> 480]
      [] text = "2026-03-20T12:00:00" -> [ok |-> TRUE, val |-> 720]
      [] text = "2026-03-20T14:00:00" -> [ok |-> TRUE, val |-> 840]
      [] text = "2026-03-20T14:10:00" -> [ok |-> TRUE, val |-> 850]
      [] text = "2026-03-20T16:30:00" -> [ok |-> TRUE, val |-> 990]
      [] text = "2026-03-20T22:00:00" -> [ok |-> TRUE, val |-> 1320]
      [] text = "2026-03-21T06:00:00" -> [ok |-> TRUE, val |-> 1800]
      [] OTHER -> [ok |-> FALSE, val |-> 0]

\* round(minutes / 60, 1) in tenths of an hour, for differences that are not
\* exactly halfway between two tenths
RoundTenths(minutes) ==
    IF minutes >= 0 THEN (minutes + 3) \div 6 ELSE 0 - ((3 - minutes) \div 6)

\* s.replace("PT", "")
RECURSIVE RemovePT(_)
RemovePT(s) ==
    IF Len(s) < 2 THEN s
    ELSE IF s[1] = "P" /\ s[2] = "T" THEN RemovePT(SubSeq(s, 3, Len(s)))
    ELSE <<s[1]>> \o RemovePT(Tail(s))

\* s.replace("h", "h ")
RECURSIVE SpaceAfterH(_)
SpaceAfterH(s) ==
    IF s = <<>> THEN <<>>
    ELSE IF s[1] = "h" THEN <<"h", " ">> \o SpaceAfterH(Tail(s))
    ELSE <<s[1]>> \o SpaceAfterH(Tail(s))

\* duration_iso.replace("PT", "").lower().replace("h", "h ").replace("m", "m")
DisplayDuration(duration_iso) == SpaceAfterH(Lower(RemovePT(duration_iso)))

\* carrier_lookup.get(airline_code, "")
LookupGet(carrier_lookup, code) ==
    IF code \in DOMAIN carrier_lookup THEN carrier_lookup[code] ELSE ""

Skip == [ok |-> FALSE]

(***************************************************************************)
(* The body of "for offer in raw['data']": the record appended, or Skip    *)
(* when the offer is passed over by continue or by the except clause.      *)
(***************************************************************************)
ExtractOne(offer, carrier_lookup) ==
    IF offer.itineraries = <<>> THEN Skip
    ELSE
    LET itin == offer.itineraries[1]
        segments == itin.segments
    IN
    IF segments = <<>> THEN Skip
    ELSE
    LET airline_code == IF segments[1].carrierCode = Absent THEN "" ELSE segments[1].carrierCode
        airline_name == LookupGet(carrier_lookup, airline_code)
        airline == AirlineText(airline_code, airline_name)
        duration == DisplayDuration(IF itin.duration = Absent THEN <<>> ELSE itin.duration)
        stops == Len(segments) - 1
        t1 == Strptime(segments[1].arrAt)
        t2 == Strptime(segments[2].depAt)
    IN
    IF offer.price.kind # "number" THEN Skip
    ELSE IF Len(segments) > 1 /\ (segments[1].arrAt = Absent \/ segments[2].depAt = Absent) THEN Skip
    ELSE IF Len(segments) > 1 /\ (~t1.ok \/ ~t2.ok) THEN Skip
    ELSE IF Len(segments) > 1 /\ segments[1].arrIata = Absent THEN Skip
    ELSE IF segments[1].depAt = Absent \/ segments[Len(segments)].arrAt = Absent THEN Skip
    ELSE [ok |-> TRUE,
          flight |->
            [airline |-> airline,
             price |-> offer.price.val,
             duration |-> duration,
             stops |-> stops,
             layover_city |-> IF Len(segments) > 1 THEN segments[1].arrIata ELSE "",
             layover_hours |-> IF Len(segments) > 1 THEN RoundTenths(t2.val - t1.val) ELSE 0,
             departure |-> segments[1].depAt,
             arrival |-> segments[Len(segments)].arrAt]]

\* flights.insert(0, ...) in place of flights.append(...)
CollectFirst(flights, r) == IF r.ok THEN <<r.flight>> \o flights ELSE flights

\* flights.append(...) for an offer that was not passed over
Collect(flights, r) == IF r.ok THEN Append(flights, r.flight) ELSE flights

RECURSIVE ExtractLoop(_, _, _)
ExtractLoop(offers, carrier_lookup, flights) ==
    IF offers = <<>> THEN flights
    ELSE ExtractLoop(Tail(offers), carrier_lookup,
                     Collect(flights, ExtractOne(Head(offers), carrier_lookup)))

\* a provider response: [hasData, data, carriers, errors]
Payload(hasData, data) ==
    [hasData |-> hasData, data |-> data, errors |-> FALSE,
     carriers |-> [c \in {"EY", "AC"} |-> IF c = "EY" THEN "Etihad Airways" ELSE "Air Canada"]]

(***************************************************************************)
(* extract_flights(raw, carrier_lookup)                                    *)
(***************************************************************************)
ExtractFlights(raw, carrier_lookup) ==
    IF ~raw.hasData THEN <<>> ELSE ExtractLoop(raw.data, carrier_lookup, <<>>)

(***************************************************************************)
(* Specification of the Flight Normalizer: extract_flights applied to      *)
(* bounded payloads.                                                       *)
(***************************************************************************)
\* offers in a payload
MaxOffers == 2
MaxHours == 23
MaxListed == 2
MaxSearchCalls == 3
MaxCols == 2
MaxRows == 2

Iso_20M == <<"P", "T", "2", "0", "M">>
Iso_1H == <<"P", "T", "1", "H">>
Iso_1H30M == <<"P", "T", "1", "H", "3", "0", "M">>
Iso_1D2H30M == <<"P", "1", "D", "T", "2", "H", "3", "0", "M">>

T0800 == "2026-03-20T08:00:00"
T1200 == "2026-03-20T12:00:00"
T1400 == "2026-03-20T14:00:00"
T1410 == "2026-03-20T14:10:00"
T1630 == "2026-03-20T16:30:00"
T2200 == "2026-03-20T22:00:00"
T0600 == "2026-03-21T06:00:00"
\* a timestamp in another format
TGarbage == "20/03/2026 08:00"

Direct(code, price, iso) == Offer(price, <<Itin(iso, <<Seg(code, T0800, T0600, "MAA")>>)>>)

OneStop(code, price, iso, arr1, dep2, iata) ==
    Offer(price, <<Itin(iso, <<Seg(code, T0800, arr1, iata), Seg(code, dep2, T0600, "MAA")>>)>>)

\* offers the normalizer turns into a record
GoodOffers ==
    { Direct("EY", Price(10), Iso_20M),
      OneStop("AC", Price(20), Iso_1H, T1400, T1630, "FRA"),
      OneStop("QR", Price(5), Iso_1H30M, T1400, T1410, "DOH"),
      OneStop("LH", Price(7), Iso_1D2H30M, T1400, T1200, "FRA"),
      Offer(Price(9), <<Itin(Absent, <<Seg(Absent, TGarbage, TGarbage, Absent)>>)>>) }

\* offers the normalizer passes over
BadOffers ==
    { Offer(Price(1), <<>>),
      Offer(Price(1), <<Itin(Iso_1H, <<>>)>>),
      Direct("EY", NoPrice, Iso_1H),
      Direct("EY", BadPrice, Iso_1H),
      OneStop("EY", Price(1), Iso_1H, TGarbage, T1630, "AUH"),
      OneStop("EY", Price(1), Iso_1H, T1400, Absent, "AUH"),
      OneStop("EY", Price(1), Iso_1H, T1400, T1630, Absent),
      Offer(Price(1), <<Itin(Iso_1H, <<Seg("EY", Absent, T0600, "MAA")>>)>>) }

NormPool == GoodOffers \cup BadOffers

NormInputs ==
    {Payload(TRUE, data) : data \in SeqsUpTo(NormPool, MaxOffers)}
    \cup {Payload(FALSE, <<>>)}

RankingIdle ==
    /\ allDays = <<>>
    /\ summary = Pending

InitNormalizer ==
    /\ TrackerIdle
    /\ RankingIdle
    /\ PipelineIdle
    /\ DurationIdle /\ TableIdle /\ ReportIdle /\ ConcurrentIdle /\ ClientIdle
    /\ payload \in NormInputs
    /\ extracted = Pending

ExtractFlightsCall ==
    /\ extracted = Pending
    /\ extracted' = [status |-> "returned", flights |-> ExtractFlights(payload, payload.carriers)]
    /\ UNCHANGED <<trackerVars, rankVars, pipeVars, payload, durVars, tableVars, reportVars,
                   concVars, clientVars>>

NextNormalizer == ExtractFlightsCall

SpecNormalizer == InitNormalizer /\ [][NextNormalizer]_vars

(***************************************************************************)
(* Part 4: the Report Assembler.                                           *)
(*                                                                         *)
(* A string is the sequence of its lines ("" is one empty line), so that   *)
(* "\n".join is concatenation.  A line is a text or a line of a table.     *)
(***************************************************************************)
TextLine(text) == [kind |-> "text", text |-> text, cells |-> <<>>]
Blank == TextLine("")
\* the triple backticks of render_ascii_block
Fence == TextLine("[three backticks]")
BorderLine == [kind |-> "border", text |-> "", cells |-> <<>>]
HeaderLine(headers) == [kind |-> "header", text |-> "", cells |-> headers]
RowLine(row) == [kind |-> "row", text |-> "", cells |-> row]

RECURSIVE JoinText(_)
\* "".join(parts)
JoinText(parts) == IF parts = <<>> THEN "" ELSE parts[1] \o JoinText(Tail(parts))

RECURSIVE JoinLines(_)
\* "\n".join(strings)
JoinLines(strings) ==
    IF strings = <<>> THEN <<Blank>>
    ELSE IF Len(strings) = 1 THEN strings[1]
    ELSE strings[1] \o JoinLines(Tail(strings))

RECURSIVE RStrip(_)
\* s.rstrip() of a string whose last non-empty line does not end in white space
RStrip(lines) ==
    IF Len(lines) > 1 /\ lines[Len(lines)] = Blank THEN RStrip(SubSeq(lines, 1, Len(lines) - 1))
    ELSE lines

\* f"{x:.2f}" of a whole number
Money(x) == ToString(x) \o ".00"

\* f"{x:.1f}h" of tenths of an hour
HoursText(tenths) ==
    IF tenths >= 0
    THEN ToString(tenths \div 10) \o "." \o ToString(tenths % 10) \o "h"
    ELSE "-" \o ToString((0 - tenths) \div 10) \o "." \o ToString((0 - tenths) % 10) \o "h"

\* f"{score:.2f}" of a score in thousandths (not exactly between two hundredths)
ScoreText(score) ==
    LET h == (score + 5) \div 10 IN
    ToString(h \div 100) \o "." \o ToString((h % 100) \div 10) \o ToString(h % 10)

\* make_table: top border, header row, separator, one line per row, bottom border
MakeTable(headers, rows) ==
    <<BorderLine, HeaderLine(headers), BorderLine>>
    \o [i \in 1..Len(rows) |-> RowLine(rows[i])]
    \o <<BorderLine>>

\* render_ascii_block
RenderAsciiBlock(table) == <<Fence>> \o table \o <<Fence>>

EXCLUDED_AIRLINES == {"CX", "AI"}

\* per-day result cap
DayCap == 10

\* build_best_day_summary_table
BuildBestDaySummaryTable(categories) ==
    MakeTable(<<"Category", "Date", "Price", "Airline", "Layover">>,
              [i \in 1..Len(categories) |->
                 <<categories[i].category, categories[i].date, Money(categories[i].price),
                   JoinText(categories[i].airline),
                   categories[i].layover_city \o Dash \o HoursText(categories[i].layover_hours)>>])

\* build_best_day_section
BuildBestDaySection(best_days_raw) ==
    LET Cat(name, e) ==
            IF e.present
            THEN <<[category |-> name, date |-> e.date, price |-> e.price, airline |-> e.airline,
                    layover_city |-> e.layover_city, layover_hours |-> e.layover_hours]>>
            ELSE <<>>
        categories == Cat("Cheapest Day", best_days_raw.cheapest)
                      \o Cat("Shortest Duration", best_days_raw.shortest_duration)
                      \o Cat("Shortest Layover", best_days_raw.shortest_layover)
    IN  IF categories = <<>> THEN <<TextLine("No best-day summary available.")>>
        ELSE <<TextLine("(star) BEST DAY TO FLY SUMMARY (star)"), Blank>>
             \o RenderAsciiBlock(BuildBestDaySummaryTable(categories))

\* build_top3_overall_table
BuildTop3OverallTable(overall_days) ==
    MakeTable(<<"Date", "Score", "Price", "Airline", "Duration", "Layover Hours", "Layover City">>,
              [i \in 1..Len(overall_days) |->
                 <<overall_days[i].date, ScoreText(overall_days[i].score),
                   Money(overall_days[i].price), JoinText(overall_days[i].airline),
                   JoinText(overall_days[i].duration), HoursText(overall_days[i].layover_hours),
                   overall_days[i].layover_city>>])

\* build_top3_overall_section
BuildTop3OverallSection(overall_days_raw) ==
    IF overall_days_raw = <<>> THEN <<TextLine("No top-3 overall days available.")>>
    ELSE <<TextLine("(globe) TOP 3 BEST OVERALL DAYS (globe)"), Blank>>
         \o RenderAsciiBlock(BuildTop3OverallTable(overall_days_raw))

\* airline.split(Dash)[0]
AirlineCode(airline) == airline[1]

\* build_daily_flights_table, on the options parse_day_flights numbers from 1
BuildDailyFlightsTable(date, raw_options) ==
    LET numbered == [i \in 1..Len(raw_options) |-> [option_number |-> i, f |-> raw_options[i]]]
        filtered == SelectSeq(numbered, LAMBDA o : AirlineCode(o.f.airline) \notin EXCLUDED_AIRLINES)
        options == Take(filtered, DayCap)
        rows == [i \in 1..Len(options) |->
                   <<ToString(options[i].option_number), JoinText(options[i].f.airline),
                     Money(options[i].f.price), JoinText(options[i].f.duration),
                     ToString(options[i].f.stops), options[i].f.layover_city,
                     HoursText(options[i].f.layover_hours),
                     options[i].f.departure, options[i].f.arrival>>]
    IN  <<TextLine("(calendar) " \o date)>>
        \o MakeTable(<<"Option", "Airline", "Price", "Duration", "Stops", "Layover City",
                       "Layover Hours", "Departure", "Arrival">>, rows)

\* the position of a date in calendar order
DateIndex(date) == CHOOSE i \in 1..Len(DayDates) : DayDates[i] = date

\* daily_raw.keys() as inserted, with no sorted() around it
KeysAsInserted(daily_raw) == daily_raw

\* sorted(daily_raw.keys()) applied to the items of the mapping
SortedByDate(daily_raw) ==
    SortedBy([i \in 1..Len(daily_raw) |->
                 [date |-> daily_raw[i].date, flights |-> daily_raw[i].flights,
                  idx |-> DateIndex(daily_raw[i].date)]], "idx")

RECURSIVE DailyParts(_)
DailyParts(days) ==
    IF days = <<>> THEN <<>>
    ELSE <<BuildDailyFlightsTable(days[1].date, days[1].flights), <<Blank>>>>
         \o DailyParts(Tail(days))

\* build_daily_sections; daily_raw is the sequence of the mapping's items
BuildDailySections(daily_raw) == RStrip(JoinLines(DailyParts(SortedByDate(daily_raw))))

\* the characters of the parts airline texts are made of
Spelling(part) ==
    CASE part = "Etihad Airways" ->
            <<"E", "t", "i", "h", "a", "d", " ", "A", "i", "r", "w", "a", "y", "s">>
      [] part = "ETIHAD AIRWAYS" ->
            <<"E", "T", "I", "H", "A", "D", " ", "A", "I", "R", "W", "A", "Y", "S">>
      [] part = "Air Canada" -> <<"A", "i", "r", " ", "C", "a", "n", "a", "d", "a">>
      [] part = Dash -> <<" ", "-", "-", " ">>
      [] part = "EY" -> <<"E", "Y">>
      [] part = "AC" -> <<"A", "C">>
      [] part = "CX" -> <<"C", "X">>
      [] part = "AI" -> <<"A", "I">>
      [] part = "QR" -> <<"Q", "R">>
      [] part = "LH" -> <<"L", "H">>
      [] part = "EK" -> <<"E", "K">>
      [] part = "A" -> <<"A">>
      [] part = "B" -> <<"B">>
      [] part = "C" -> <<"C">>

\* the characters of f["airline"]
RECURSIVE AirlineChars(_)
AirlineChars(airline) ==
    IF airline = <<>> THEN <<>> ELSE Spelling(airline[1]) \o AirlineChars(Tail(airline))

\* needle in text
IsSubstring(needle, text) ==
    \E k \in 0..(Len(text) - Len(needle)) : SubSeq(text, k + 1, k + Len(needle)) = needle

\* "etihad" in airline_name, with no lower() before it
MentionsEtihadSameCase(airline) ==
    IsSubstring(<<"e", "t", "i", "h", "a", "d">>, AirlineChars(airline))

\* "etihad" in f["airline"].lower() (the two replace calls only touch dashes)
MentionsEtihad(airline) ==
    IsSubstring(<<"e", "t", "i", "h", "a", "d">>, Lower(AirlineChars(airline)))

RECURSIVE EtihadRows(_)
\* the loop over daily_raw.items() that collects etihad_rows
EtihadRows(daily_raw) ==
    IF daily_raw = <<>> THEN <<>>
    ELSE LET date == daily_raw[1].date
             hits == SelectSeq(daily_raw[1].flights, LAMBDA f : MentionsEtihad(f.airline))
         IN  [i \in 1..Len(hits) |->
                [date |-> date, price |-> hits[i].price, duration |-> hits[i].duration,
                 layover_hours |-> hits[i].layover_hours]]
             \o EtihadRows(Tail(daily_raw))

\* the Etihad-only section of build_full_report
EtihadSection(daily_raw) ==
    LET etihad_rows == SortedBy(EtihadRows(daily_raw), "price") IN
    IF etihad_rows # <<>>
    THEN <<TextLine("(plane) ETIHAD AIRWAYS -- MARCH 20 TO MARCH 31"), Blank>>
         \o RenderAsciiBlock(
              MakeTable(<<"Date", "Price", "Duration", "Layover">>,
                        [i \in 1..Len(etihad_rows) |->
                           <<etihad_rows[i].date, Money(etihad_rows[i].price),
                             JoinText(etihad_rows[i].duration),
                             HoursText(etihad_rows[i].layover_hours)>>]))
    ELSE <<TextLine("(plane) ETIHAD AIRWAYS -- No flights found for this date range.")>>

\* the list "sections" of build_full_report
ReportSections(best_days_raw, overall_raw, daily_raw) ==
    <<BuildBestDaySection(best_days_raw), <<Blank>>,
      BuildTop3OverallSection(overall_raw), <<Blank>>,
      EtihadSection(daily_raw), <<Blank>>,
      BuildDailySections(daily_raw)>>

(***************************************************************************)
(* build_full_report(best_days_raw, overall_raw, daily_raw)                *)
(***************************************************************************)
BuildFullReport(best_days_raw, overall_raw, daily_raw) ==
    JoinLines(ReportSections(best_days_raw, overall_raw, daily_raw))

(***************************************************************************)
(* Part 5: the pipeline run_pipeline_llm_routed.                           *)
(***************************************************************************)
\* requested dates (the first NumDates of the fixed range)
NumDates == 2

\* layover ceiling, in tenths of an hour
LayoverCeiling == 60

\* what client.search_flights returns: None or the response body
NoResponse == [isNone |-> TRUE, body |-> Payload(FALSE, <<>>)]
Body(body) == [isNone |-> FALSE, body |-> body]
ErrorBody == [Payload(FALSE, <<>>) EXCEPT !.errors = TRUE]

\* the layover filter alone, with no carrier filter before it
PipelineFilterLayoverOnly(flights) ==
    SelectSeq(flights, LAMBDA f : f.layover_hours <= LayoverCeiling)

\* the two filters applied to a day's records
PipelineFilter(flights) ==
    SelectSeq(SelectSeq(flights, LAMBDA f : AirlineCode(f.airline) \notin {"CX", "AI"}),
              LAMBDA f : f.layover_hours <= LayoverCeiling)

RECURSIVE CollectDays(_, _)
\* the while loop: the days kept, in date order, each with its filtered records
CollectDays(resps, i) ==
    IF i > Len(resps) THEN <<>>
    ELSE IF resps[i].isNone \/ resps[i].body.errors THEN CollectDays(resps, i + 1)
    ELSE <<[date |-> DayDates[i],
            flights |-> PipelineFilter(ExtractFlights(resps[i].body, resps[i].body.carriers))]>>
         \o CollectDays(resps, i + 1)

RunPipeline(resps) ==
    LET all_days == CollectDays(resps, 1)
        daily_raw == all_days
        best == ComputeBestDay(all_days)
    IN  IF all_days = <<>>
        THEN [status |-> "message",
              text |-> <<TextLine("No valid flight data found for March 20-24, 2026."),
                         TextLine("Try again later.")>>]
        ELSE IF best.status = "raised" THEN [status |-> "raised", exc |-> best.exc]
        ELSE [status |-> "report",
              final_report |-> BuildFullReport(best, best.top3_overall, daily_raw),
              best_day_ascii |-> BuildBestDaySection(best),
              top3_ascii |-> BuildTop3OverallSection(best.top3_overall),
              daily_ascii |-> BuildDailySections(daily_raw)]

PipePool ==
    { Direct("EY", Price(10), Iso_20M),
      Direct("CX", Price(2), Iso_20M),
      OneStop("AC", Price(20), Iso_1H, T1400, T1630, "FRA"),
      OneStop("QR", Price(5), Iso_1H30M, T1400, T2200, "DOH"),
      Direct("LH", Price(7), Iso_1D2H30M),
      Direct("EY", NoPrice, Iso_1H) }

\* a day of many offers: every fourth of a denylisted carrier, one with a
\* layover of eight hours
BigResponse ==
    Body(Payload(TRUE,
         [i \in 1..(DayCap + 6) |->
            IF i % 4 = 2 THEN Direct("CX", Price(i), Iso_20M)
            ELSE IF i = 7 THEN OneStop("QR", Price(i), Iso_1H30M, T1400, T2200, "DOH")
            ELSE Direct("EY", Price(i), Iso_20M)]))

PipeResponses ==
    {NoResponse, Body(ErrorBody), BigResponse}
    \cup {Body(Payload(TRUE, data)) : data \in SeqsUpTo(PipePool, MaxOffers)}

InitPipeline ==
    /\ TrackerIdle
    /\ RankingIdle
    /\ NormalizerIdle
    /\ DurationIdle /\ TableIdle /\ ReportIdle /\ ConcurrentIdle /\ ClientIdle
    /\ responses \in [1..NumDates -> PipeResponses]
    /\ output = Pending

RunPipelineCall ==
    /\ output = Pending
    /\ output' = RunPipeline(responses)
    /\ UNCHANGED <<trackerVars, rankVars, normVars, responses, durVars, tableVars, reportVars,
                   concVars, clientVars>>

NextPipeline == RunPipelineCall

SpecPipeline == InitPipeline /\ [][NextPipeline]_vars

(***************************************************************************)
(* Properties of the Price History Tracker                                 *)
(***************************************************************************)
\* the price the store holds for d: the file exists, can be read, is a JSON
\* object and maps d to a number
StoredPrice(f, d) ==
    IF f.exists /\ f.readable /\ f.kind = "map" /\ d \in DOMAIN f.map /\ f.map[d] \in Prices
    THEN f.map[d] ELSE None

Returned == calls > 0 /\ last.ret.kind # "raised"

\* C1: a call that returns yields a drop message exactly when the store held
\* a previous price for the date and the current price is strictly lower;
\* starting from a store without the date, with every write succeeding, the
\* first call for the date returns None and a later call returns a message
\* iff its price is strictly lower than the one passed by the call before it.
C1_MessageIffStrictlyLower ==
    calls > 0 =>
        /\ Returned =>
             (last.ret.kind = "message" <=>
                 /\ StoredPrice(last.before, last.d) # None
                 /\ last.p < StoredPrice(last.before, last.d))
        /\ last.ret.kind = "message" =>
             /\ last.ret.date = last.d
             /\ last.ret.was = StoredPrice(last.before, last.d)
             /\ last.ret.now = last.p
             /\ last.ret.diff > 0
        /\ (clean /\ StoredPrice(initFile, last.d) = None) =>
             /\ Returned
             /\ last.seenBefore = None => last.ret = NoneResult
             /\ last.seenBefore # None =>
                  (last.ret.kind = "message" <=> last.p < last.seenBefore)

\* a second call on a date whose first price was higher returned a message
C1_Witness ==
    /\ clean /\ calls >= 2
    /\ StoredPrice(initFile, last.d) = None
    /\ last.seenBefore # None /\ last.p < last.seenBefore
    /\ last.ret.kind = "message"

\* the member of d in the file's mapping (None when there is none)
Entry(f, d) == IF f.kind = "map" /\ d \in DOMAIN f.map THEN f.map[d] ELSE None

\* C2: with every write succeeding on a well-formed store, the file holds for
\* every observed date the price of the most recent call for it, whether it
\* went down, up or stayed; a call leaves the entries of the other dates
\* unchanged; and the file is written exactly once per call.
C2_WriteThroughOverwrite ==
    clean =>
        /\ calls > 0 => (priceFile.exists /\ priceFile.kind = "map")
        /\ \A d \in Dates :
             IF recent[d] # None
             THEN Entry(priceFile, d) = recent[d]
             ELSE Entry(priceFile, d) = Entry(initFile, d)
        /\ calls > 0 =>
             \A x \in Dates \ {last.d} : Entry(priceFile, x) = Entry(last.before, x)
        /\ writes = calls

\* a price rise overwrote the stored lower price while another date kept its entry
C2_Witness ==
    /\ clean /\ calls >= 2
    /\ StoredPrice(last.before, last.d) # None
    /\ last.p > StoredPrice(last.before, last.d)
    /\ Entry(priceFile, last.d) = last.p
    /\ \E x \in Dates \ {last.d} : Entry(priceFile, x) # None

\* C3: when writing the file fails, the call still returns the comparison of
\* the previous and the current price instead of raising.
C3_WriteFailureDoesNotPropagate ==
    (calls > 0 /\ last.wr # "ok" /\ WellFormedFile(last.before)) =>
        /\ last.ret.kind # "raised"
        /\ last.ret.kind = "message" <=>
               /\ StoredPrice(last.before, last.d) # None
               /\ last.p < StoredPrice(last.before, last.d)

\* the file states the claim lists: absent, unreadable, not valid JSON, or
\* JSON that is not a mapping from dates to prices
MissingOrCorrupt(f) ==
    \/ ~f.exists
    \/ ~f.readable
    \/ f.kind \in {"invalid", "nonmap"}
    \/ f.kind = "map" /\ \E d \in DOMAIN f.map : f.map[d] \notin Prices

\* C4: on a missing or corrupt file (and a write that succeeds) the call
\* completes without raising, returns None, and leaves the store {d: p}.
C4_CorruptFileIsEmptyMapping ==
    (calls > 0 /\ last.wr = "ok" /\ MissingOrCorrupt(last.before)) =>
        /\ last.ret = NoneResult
        /\ priceFile.exists /\ priceFile.kind = "map"
        /\ priceFile.map = [x \in {last.d} |-> last.p]

(***************************************************************************)
(* Properties of the Ranking Engine                                        *)
(***************************************************************************)
RankReturned == summary # Pending /\ summary.status = "returned"

\* the positions <<day, index>> of the records handed to the engine
Positions ==
    UNION {{<<i, j>> : j \in 1..Len(allDays[i].flights)} : i \in 1..Len(allDays)}

RecordAt(pos) == allDays[pos[1]].flights[pos[2]]

Minutes(f) == ParseDurationToMinutes(f.duration).val

\* the metric of a category on a record
Metric(category, f) ==
    CASE category = "cheapest" -> f.price
      [] category = "shortest_duration" -> Minutes(f)
      [] category = "shortest_layover" -> f.layover_hours

\* the metric an entry carries
EntryMetric(category, e) ==
    CASE category = "cheapest" -> e.price
      [] category = "shortest_duration" -> e.duration_minutes
      [] category = "shortest_layover" -> e.layover_hours

Categories == {"cheapest", "shortest_duration", "shortest_layover"}

\* pos comes before q in encounter order
Before(pos, q) == pos[1] < q[1] \/ (pos[1] = q[1] /\ pos[2] < q[2])

\* the first record, in encounter order, that attains the global minimum
FirstMinimal(category) ==
    CHOOSE pos \in Positions :
        /\ \A q \in Positions : Metric(category, RecordAt(pos)) <= Metric(category, RecordAt(q))
        /\ \A q \in Positions :
             Metric(category, RecordAt(q)) = Metric(category, RecordAt(pos)) =>
                 (q = pos \/ Before(pos, q))

\* C5: each category entry carries the global minimum of its metric, is dated
\* with the first day in caller order that attains it, and describes the
\* first record of that day that attains it.
C5_CategoryIsFirstGlobalMinimum ==
    (RankReturned /\ Positions # {}) =>
        \A category \in Categories :
            LET e == summary[category]
                pos == FirstMinimal(category)
                f == RecordAt(pos)
            IN  /\ e.present
                /\ EntryMetric(category, e) = Metric(category, f)
                /\ \A q \in Positions : EntryMetric(category, e) <= Metric(category, RecordAt(q))
                /\ e.date = allDays[pos[1]].date
                /\ e.airline = f.airline /\ e.price = f.price
                /\ e.layover_hours = f.layover_hours /\ e.layover_city = f.layover_city

\* a later day ties the minimum of an earlier day, and the earlier day is kept;
\* and the spec's example puts the cheapest entry on the third day
C5_Witness ==
    /\ RankReturned
    /\ \/ /\ Len(allDays) = 2
          /\ \E q \in Positions : q[1] = 2 /\ RecordAt(q).price = summary.cheapest.price
          /\ summary.cheapest.date = DayDates[1]
       \/ /\ allDays = ExampleCheapest
          /\ summary.cheapest.date = DayDates[3] /\ summary.cheapest.price = 10

\* the number of a position in encounter order
EncOf(pos) == Cardinality({q \in Positions : Before(q, pos)}) + 1

PosOfEnc(n) == CHOOSE pos \in Positions : EncOf(pos) = n

ClaimScore(f) == f.price + Minutes(f) + 10 * f.layover_hours

\* C6: the top-3 list holds the min(3, n) lowest-scored records in
\* non-decreasing score order, ties in encounter order; no record outside
\* the list scores strictly lower than one inside it, and of two records of
\* equal score the one encountered earlier is preferred.
C6_Top3LowestStable ==
    RankReturned =>
        LET top == summary.top3_overall
            n == Cardinality(Positions)
            inTop == {top[i].enc : i \in 1..Len(top)}
        IN  /\ Len(top) = (IF n < 3 THEN n ELSE 3)
            /\ Cardinality(inTop) = Len(top)
            /\ \A i \in 1..Len(top) :
                 /\ top[i].enc \in 1..n
                 /\ top[i].score = ClaimScore(RecordAt(PosOfEnc(top[i].enc)))
                 /\ top[i].date = allDays[PosOfEnc(top[i].enc)[1]].date
                 /\ top[i].airline = RecordAt(PosOfEnc(top[i].enc)).airline
            /\ \A i, j \in 1..Len(top) :
                 i < j => \/ top[i].score < top[j].score
                          \/ top[i].score = top[j].score /\ top[i].enc < top[j].enc
            /\ \A k \in (1..n) \ inTop : \A i \in 1..Len(top) :
                 LET sk == ClaimScore(RecordAt(PosOfEnc(k))) IN
                 \/ sk > top[i].score
                 \/ sk = top[i].score /\ k > top[i].enc

\* more than three records, a tie inside the list and a tie across its end;
\* and the spec's example yields [C, A, B]
C6_Witness ==
    /\ RankReturned
    /\ \/ /\ Cardinality(Positions) > 3
          /\ summary.top3_overall[1].score = summary.top3_overall[2].score
          /\ \E pos \in Positions :
                /\ EncOf(pos) \notin {summary.top3_overall[i].enc : i \in 1..3}
                /\ ClaimScore(RecordAt(pos)) = summary.top3_overall[3].score
       \/ /\ allDays = ExampleTop3
          /\ [i \in 1..3 |-> summary.top3_overall[i].airline]
               = <<AirlineText("C", ""), AirlineText("A", ""), AirlineText("B", "")>>

AllDaysEmpty == \A i \in 1..Len(allDays) : allDays[i].flights = <<>>

EmptyDates == {allDays[i].date : i \in {k \in 1..Len(allDays) : allDays[k].flights = <<>>}}

\* the records whose duration text the Duration Parser accepts
Parsable == {pos \in Positions : ParseDurationToMinutes(RecordAt(pos).duration).ok}

\* C7: empty days never make the engine raise and contribute nothing; the
\* three entries are all present or all absent; they are absent exactly when
\* every day is empty, and exactly then the top-3 list and the summary are empty.
C7_EmptyDaysContributeNothing ==
    summary # Pending =>
        /\ AllDaysEmpty => summary.status = "returned"
        /\ summary.status = "raised" => Parsable # Positions
        /\ RankReturned =>
             /\ summary.cheapest.present = summary.shortest_duration.present
             /\ summary.cheapest.present = summary.shortest_layover.present
             /\ ~summary.cheapest.present <=> AllDaysEmpty
             /\ summary.top3_overall = <<>> <=> AllDaysEmpty
             /\ summary.text_summary = <<>> <=> AllDaysEmpty
             /\ Len(summary.text_summary) = Cardinality({c \in Categories : summary[c].present})
             /\ \A c \in Categories : summary[c].present => summary[c].date \notin EmptyDates
             /\ \A i \in 1..Len(summary.top3_overall) :
                  summary.top3_overall[i].date \notin EmptyDates

\* only empty days were supplied and the engine returned the "no data" state;
\* or an empty day preceded a day with data
C7_Witness ==
    /\ RankReturned
    /\ Len(allDays) = 2
    /\ allDays[1].flights = <<>>
    /\ \/ AllDaysEmpty /\ ~summary.cheapest.present /\ summary.text_summary = <<>>
       \/ ~AllDaysEmpty /\ summary.cheapest.present /\ summary.cheapest.date = DayDates[2]

\* C10: a record whose duration cannot be parsed is skipped by the ranking
\* step, which still ranks the remaining records of the batch.
C10_BadDurationSkipsOneRecord ==
    summary # Pending =>
        /\ summary.status = "returned"
        /\ Len(summary.top3_overall) = (IF Cardinality(Parsable) < 3 THEN Cardinality(Parsable) ELSE 3)
        /\ Parsable # {} => summary.cheapest.present

(***************************************************************************)
(* Properties of the Flight Normalizer                                     *)
(***************************************************************************)
Extracted == extracted # Pending /\ extracted.status = "returned"

TimestampOK(text) == text # Absent /\ Strptime(text).ok

\* a segment with a missing or unparsable timestamp or a missing airport code
SegmentMalformed(seg) ==
    ~TimestampOK(seg.depAt) \/ ~TimestampOK(seg.arrAt) \/ seg.arrIata = Absent

\* malformed as the claim lists it
ClaimMalformed(offer) ==
    \/ offer.itineraries = <<>>
    \/ offer.itineraries[1].segments = <<>>
    \/ offer.price.kind # "number"
    \/ \E i \in 1..Len(offer.itineraries[1].segments) :
          SegmentMalformed(offer.itineraries[1].segments[i])

\* the offers that are passed over: nothing to read, no numeric price, no
\* departure of the first or arrival of the last segment, and with more than
\* one segment a missing or unparsable arrival of the first or departure of the
\* second segment or no airport code of the first arrival
PassedOver(offer) ==
    \/ offer.itineraries = <<>>
    \/ offer.itineraries[1].segments = <<>>
    \/ offer.price.kind # "number"
    \/ LET segs == offer.itineraries[1].segments IN
       \/ segs[1].depAt = Absent
       \/ segs[Len(segs)].arrAt = Absent
       \/ Len(segs) > 1 /\ \/ ~TimestampOK(segs[1].arrAt)
                           \/ ~TimestampOK(segs[2].depAt)
                           \/ segs[1].arrIata = Absent

\* flights are the records of offers, one each and in the same order
RecordsOf(flights, offers) ==
    /\ Len(flights) = Len(offers)
    /\ \A i \in 1..Len(flights) :
         LET segs == offers[i].itineraries[1].segments IN
         /\ flights[i].price = offers[i].price.val
         /\ flights[i].stops = Len(segs) - 1
         /\ flights[i].departure = segs[1].depAt
         /\ flights[i].arrival = segs[Len(segs)].arrAt

\* C9 as claimed: every offer with a missing or unparsable segment timestamp
\* or airport code is skipped and the others yield one record each, in order.
C9_MalformedAsClaimedSkipped ==
    Extracted =>
        /\ ~payload.hasData => extracted.flights = <<>>
        /\ payload.hasData =>
             RecordsOf(extracted.flights, SelectSeq(payload.data, LAMBDA o : ~ClaimMalformed(o)))

\* C9 amended: extract_flights always returns; the offers passed over are
\* exactly those of PassedOver (timestamps and airport codes that are only
\* copied or not read are not validated); every other offer yields exactly
\* one record, in the order of the offers; no data yields the empty sequence.
C9_PassedOverSkippedOrderKept ==
    extracted # Pending =>
        /\ extracted.status = "returned"
        /\ ~payload.hasData => extracted.flights = <<>>
        /\ payload.hasData =>
             RecordsOf(extracted.flights, SelectSeq(payload.data, LAMBDA o : ~PassedOver(o)))

\* a bad offer came first and a good offer after it was still extracted
C9_Witness ==
    /\ Extracted
    /\ Len(payload.data) = 2
    /\ PassedOver(payload.data[1]) /\ ~PassedOver(payload.data[2])
    /\ Len(extracted.flights) = 1
    /\ extracted.flights[1].price = payload.data[2].price.val

(***************************************************************************)
(* Properties of the Report Assembler and the pipeline                     *)
(***************************************************************************)
\* every requested date got a response, and none of them holds an offer
ZeroOffersEverywhere ==
    /\ responses # <<>>
    /\ \A i \in 1..Len(responses) :
         /\ ~responses[i].isNone /\ ~responses[i].body.errors
         /\ responses[i].body.hasData /\ responses[i].body.data = <<>>

\* a section that is one non-empty line of text
IsPlaceholder(section) ==
    Len(section) = 1 /\ section[1].kind = "text" /\ section[1].text # ""

\* a table without a data row: header, separator and bottom border in a row
HasHeaderOnlyTable(lines) ==
    \E i \in 1..(Len(lines) - 2) :
        lines[i].kind = "header" /\ lines[i + 1].kind = "border" /\ lines[i + 2].kind = "border"

\* C8: with zero offers for every requested date the pipeline returns a
\* report whose four sections are placeholder lines: the report is the four
\* placeholders separated by empty lines, without any table.
C8_NoDataPlaceholdersEverywhere ==
    (output # Pending /\ ZeroOffersEverywhere) =>
        /\ output.status = "report"
        /\ IsPlaceholder(output.best_day_ascii)
        /\ IsPlaceholder(output.top3_ascii)
        /\ IsPlaceholder(output.daily_ascii)
        /\ ~HasHeaderOnlyTable(output.final_report)
        /\ Len(output.final_report) = 7
        /\ \A i \in {1, 3, 5, 7} : IsPlaceholder(<<output.final_report[i]>>)

(***************************************************************************)
(* Part 6: the Duration Parser on rendered durations.                      *)
(*                                                                         *)
(* durIn is [h, m, form, text]: text is the duration of h hours m minutes  *)
(* written in the form named, either the display text handed to            *)
(* parse_duration_to_minutes or the ISO text extract_flights starts from.  *)
(***************************************************************************)
\* str(n) for n >= 0
RECURSIVE Str(_)
Str(n) == IF n < 10 THEN <<Digits[n + 1]>> ELSE Str(n \div 10) \o <<Digits[(n % 10) + 1]>>

TextForms == {"h_m", "h", "m"}
IsoForms == {"PThHmM", "PThH", "PTmM"}

Rendered(h, m, form) ==
    CASE form = "h_m" -> Str(h) \o <<"h", " ">> \o Str(m) \o <<"m">>
      [] form = "h" -> Str(h) \o <<"h">>
      [] form = "m" -> Str(m) \o <<"m">>
      [] form = "PThHmM" -> <<"P", "T">> \o Str(h) \o <<"H">> \o Str(m) \o <<"M">>
      [] form = "PThH" -> <<"P", "T">> \o Str(h) \o <<"H">>
      [] form = "PTmM" -> <<"P", "T">> \o Str(m) \o <<"M">>

DurationInputs ==
    { [h |-> h, m |-> m, form |-> f, text |-> Rendered(h, m, f)] :
        h \in 0..MaxHours, m \in 0..59, f \in TextForms \cup IsoForms }

InitDuration ==
    /\ TrackerIdle /\ RankingIdle /\ NormalizerIdle /\ PipelineIdle
    /\ TableIdle /\ ReportIdle /\ ConcurrentIdle /\ ClientIdle
    /\ durIn \in DurationInputs
    /\ durOut = Pending

\* extract_flights turns the ISO duration into the record's display text
DisplayDurationCall ==
    /\ durOut = Pending
    /\ durIn.form \in IsoForms
    /\ durOut' = [status |-> "displayed", text |-> DisplayDuration(durIn.text)]
    /\ UNCHANGED <<trackerVars, rankVars, normVars, pipeVars, durIn, tableVars, reportVars,
                   concVars, clientVars>>

\* parse_duration_to_minutes on a display text
ParseDurationCall ==
    /\ \/ durOut = Pending /\ durIn.form \in TextForms
       \/ durOut.status = "displayed"
    /\ LET text == IF durOut = Pending THEN durIn.text ELSE durOut.text
           r == ParseDurationToMinutes(text)
       IN  durOut' = [status |-> "parsed", text |-> text, ok |-> r.ok, val |-> r.val]
    /\ UNCHANGED <<trackerVars, rankVars, normVars, pipeVars, durIn, tableVars, reportVars,
                   concVars, clientVars>>

NextDuration == DisplayDurationCall \/ ParseDurationCall

SpecDuration == InitDuration /\ [][NextDuration]_vars

(***************************************************************************)
(* C11: parsing the rendering of h hours and m minutes (0 <= m < 60) gives *)
(* h*60+m; a rendering without the hour part gives m and one without the   *)
(* minute part gives 60*h; the same holds when the text parsed is the      *)
(* display text derived from the ISO forms PT<h>H<m>M, PT<h>H and PT<m>M.  *)
(***************************************************************************)
ExpectedMinutes(d) ==
    CASE d.form \in {"h_m", "PThHmM"} -> d.h * 60 + d.m
      [] d.form \in {"h", "PThH"} -> 60 * d.h
      [] d.form \in {"m", "PTmM"} -> d.m

C11_DurationRoundTrip ==
    (durOut # Pending /\ durOut.status = "parsed") =>
        /\ durOut.ok
        /\ durOut.val = ExpectedMinutes(durIn)

C11_Witness ==
    /\ durOut # Pending
    /\ durOut.status = "parsed"
    /\ durIn.form = "PThHmM"
    /\ durIn.h = 12
    /\ durIn.m = 45
    /\ durOut.text = <<"1", "2", "h", " ", "4", "5", "m">>
    /\ durOut.val = 765

(***************************************************************************)
(* Part 7: the ASCII Table Renderer at the level of characters (_pad,      *)
(* auto_column_widths, make_table).  A cell, a header and a line are       *)
(* texts; the table is the sequence of the lines that "\n".join joins.     *)
(***************************************************************************)
Spaces(n) == [i \in 1..n |-> " "]
Dashes(n) == [i \in 1..n |-> "-"]

PyMax(a, b) == IF b > a THEN b ELSE a

\* text.center(width): the left margin is the smaller half, except that an
\* odd margin in an odd width puts the extra blank on the left
CenterLeft(len, width) ==
    LET marg == width - len
    IN  (marg \div 2) + (IF marg % 2 = 1 /\ width % 2 = 1 THEN 1 ELSE 0)

Pad(text, width, align) ==
    IF Len(text) > width THEN SubSeq(text, 1, width)
    ELSE IF align = "right" THEN Spaces(width - Len(text)) \o text
    ELSE IF align = "center"
         THEN Spaces(CenterLeft(Len(text), width)) \o text
              \o Spaces(width - Len(text) - CenterLeft(Len(text), width))
    ELSE text \o Spaces(width - Len(text))

\* max_lengths[i] after the rows up to the k-th were looked at
RECURSIVE MaxLength(_, _, _, _)
MaxLength(headers, rows, i, k) ==
    IF k = 0 THEN Len(headers[i])
    ELSE IF i <= Len(rows[k])
         THEN PyMax(MaxLength(headers, rows, i, k - 1), Len(rows[k][i]))
         ELSE MaxLength(headers, rows, i, k - 1)

TablePadding == 2

AutoColumnWidths(headers, rows) ==
    [i \in 1..Len(headers) |-> MaxLength(headers, rows, i, Len(rows)) + TablePadding]

\* sep.join(parts)
RECURSIVE JoinChars(_, _)
JoinChars(parts, sep) ==
    IF parts = <<>> THEN <<>>
    ELSE IF Len(parts) = 1 THEN parts[1]
    ELSE parts[1] \o sep \o JoinChars(Tail(parts), sep)

\* format_row: one padded cell per cell OF THE ROW; ok = FALSE stands for the
\* IndexError of widths[i] or aligns[i] on a row longer than they are
FormatRow(row, widths, aligns) ==
    IF Len(row) > Len(widths) \/ Len(row) > Len(aligns) THEN [ok |-> FALSE, line |-> <<>>]
    ELSE [ok |-> TRUE,
          line |-> <<"|", " ">>
                   \o JoinChars([i \in 1..Len(row) |-> Pad(row[i], widths[i], aligns[i])],
                                <<" ", "|", " ">>)
                   \o <<" ", "|">>]

Border(widths) ==
    <<"+", "-">> \o JoinChars([i \in 1..Len(widths) |-> Dashes(widths[i])], <<"-", "+", "-">>)
    \o <<"-", "+">>

\* the aligns argument: None, or a list
NoAligns == [none |-> TRUE]
Aligns(list) == [none |-> FALSE, list |-> list]

\* the widths the caller has: computed by auto_column_widths, or supplied
AutoWidths == [auto |-> TRUE]
Widths(list) == [auto |-> FALSE, list |-> list]

DefaultAligns(headers) == [i \in 1..Len(headers) |-> "left"]

MakeTableChars(headers, rows, widths, aligns_arg) ==
    LET aligns == IF aligns_arg.none THEN DefaultAligns(headers) ELSE aligns_arg.list
        border == Border(widths)
        head   == FormatRow(headers, widths, aligns)
        body   == [k \in 1..Len(rows) |-> FormatRow(rows[k], widths, aligns)]
    IN  IF ~head.ok \/ \E k \in 1..Len(rows) : ~body[k].ok
        THEN [status |-> "raised", exc |-> "IndexError"]
        ELSE [status |-> "returned",
              lines |-> <<border, head.line, border>>
                        \o [k \in 1..Len(rows) |-> body[k].line] \o <<border>>]

\* the header of column i: a short and a long header alternate
HeaderAt(i) == IF i % 2 = 1 THEN <<"A">> ELSE <<"D", "a", "t", "e">>
CellPool == {<<"x">>, <<"4", "1", "2", ".", "5">>}
WidthChoices == {1, 3}
AlignChoices == {"left", "right", "center"}

\* sequences over S of exactly n elements
SeqsOfLen(S, n) == [1..n -> S]

\* the inputs the renderer is specified for: n headers, one width and one
\* alignment per header, rows of at most n cells
TableInputsOf(n) ==
    { [headers |-> h, rows |-> r, widths |-> w, aligns |-> a] :
        h \in { [i \in 1..n |-> HeaderAt(i)] },
        r \in UNION { SeqsOfLen(UNION { SeqsOfLen(CellPool, c) : c \in 0..n }, k) : k \in 1..MaxRows },
        w \in {AutoWidths} \cup { Widths(l) : l \in SeqsOfLen(WidthChoices, n) },
        a \in {NoAligns} \cup { Aligns([i \in 1..n |-> al]) : al \in AlignChoices } }

TableInputs == UNION { TableInputsOf(n) : n \in 1..MaxCols }

InitTable ==
    /\ TrackerIdle /\ RankingIdle /\ NormalizerIdle /\ PipelineIdle
    /\ DurationIdle /\ ReportIdle /\ ConcurrentIdle /\ ClientIdle
    /\ tableIn \in TableInputs
    /\ tableOut = Pending

\* widths = auto_column_widths(headers, rows)
AutoColumnWidthsCall ==
    /\ tableOut = Pending
    /\ tableIn.widths.auto
    /\ tableOut' = [status |-> "widths", widths |-> AutoColumnWidths(tableIn.headers, tableIn.rows)]
    /\ UNCHANGED <<trackerVars, rankVars, normVars, pipeVars, durVars, tableIn, reportVars,
                   concVars, clientVars>>

\* make_table(headers, rows, widths, aligns)
MakeTableCall ==
    /\ \/ tableOut = Pending /\ ~tableIn.widths.auto
       \/ tableOut.status = "widths"
    /\ LET widths == IF tableOut = Pending THEN tableIn.widths.list ELSE tableOut.widths
           t == MakeTableChars(tableIn.headers, tableIn.rows, widths, tableIn.aligns)
       IN  tableOut' = IF t.status = "returned"
                       THEN [status |-> "returned", widths |-> widths, lines |-> t.lines]
                       ELSE t
    /\ UNCHANGED <<trackerVars, rankVars, normVars, pipeVars, durVars, tableIn, reportVars,
                   concVars, clientVars>>

NextTable == AutoColumnWidthsCall \/ MakeTableCall

SpecTable == InitTable /\ [][NextTable]_vars

(***************************************************************************)
(* C12: for every header sequence and every non-empty sequence of rows,    *)
(* rows with fewer cells than the header and cells longer than an explicit *)
(* width included, make_table returns a table of exactly (rows + 4) lines  *)
(* that all have the same length, and a cell longer than its column's      *)
(* width shows as exactly its first width characters.                      *)
(***************************************************************************)
C12_TableIsRectangular ==
    (tableOut # Pending /\ tableOut.status \in {"returned", "raised"}) =>
        /\ tableOut.status = "returned"
        /\ Len(tableOut.lines) = Len(tableIn.rows) + 4
        /\ \A i, j \in 1..Len(tableOut.lines) : Len(tableOut.lines[i]) = Len(tableOut.lines[j])

(***************************************************************************)
(* Part 8: the Report Assembler on bounded mappings.                       *)
(*                                                                         *)
(* dailyRaw is the sequence of the items of daily_raw in insertion order:  *)
(* distinct date keys, each with the list of that day's records.           *)
(***************************************************************************)
Dur_2h0m == <<"2", "h", " ", "0", "m">>

ReportPool ==
    { Flt(AirlineText("EY", "Etihad Airways"), 500, Dur_1h0m, 0, "", 0),
      Flt(AirlineText("EY", "Etihad Airways"), 300, Dur_1h0m, 0, "", 0),
      Flt(AirlineText("EY", "ETIHAD AIRWAYS"), 300, Dur_2h0m, 1, "AUH", 15) }

\* a day of n records, every third one of a denylisted carrier
BigDay(n) ==
    [i \in 1..n |->
        IF i % 3 = 2 THEN Flt(AirlineText("AI", ""), i, Dur_20m, 0, "", 0)
        ELSE Flt(AirlineText("AC", "Air Canada"), i, Dur_20m, 0, "", 0)]

DayLists == SeqsUpTo(ReportPool, MaxListed) \cup {BigDay(DayCap + 6)}

\* the date keys a mapping can have
ReportDates == {DayDates[1], DayDates[2]}

ReportInputs ==
    UNION { { [i \in 1..n |-> [date |-> ds[i], flights |-> fs[i]]] :
                ds \in { d \in [1..n -> ReportDates] : \A i, j \in 1..n : i # j => d[i] # d[j] },
                fs \in [1..n -> DayLists] } : n \in 0..Cardinality(ReportDates) }

InitReport ==
    /\ TrackerIdle /\ RankingIdle /\ NormalizerIdle /\ PipelineIdle
    /\ DurationIdle /\ TableIdle /\ ConcurrentIdle /\ ClientIdle
    /\ dailyRaw \in ReportInputs
    /\ reportOut = Pending

\* build_full_report(summary, summary["top3_overall"], daily_raw) with the summary
\* compute_best_day makes of the same days
BuildFullReportCall ==
    /\ reportOut = Pending
    /\ LET best == ComputeBestDay(dailyRaw)
       IN  /\ best.status = "returned"
           /\ reportOut' = [status |-> "report",
                            text |-> BuildFullReport(best, best.top3_overall, dailyRaw)]
    /\ UNCHANGED <<trackerVars, rankVars, normVars, pipeVars, durVars, tableVars, dailyRaw,
                   concVars, clientVars>>

\* build_daily_sections(daily_raw)
BuildDailySectionsCall ==
    /\ reportOut = Pending
    /\ reportOut' = [status |-> "daily", text |-> BuildDailySections(dailyRaw)]
    /\ UNCHANGED <<trackerVars, rankVars, normVars, pipeVars, durVars, tableVars, dailyRaw,
                   concVars, clientVars>>

NextReport == BuildFullReportCall \/ BuildDailySectionsCall

SpecReport == InitReport /\ [][NextReport]_vars

(***************************************************************************)
(* C13: the carrier-filtered subsection of the full report holds exactly   *)
(* the records, over all dates, whose airline text contains "etihad" in    *)
(* any mix of cases; its rows are in ascending price order, equal prices   *)
(* in encounter order; when no record matches the subsection is the        *)
(* placeholder line and no table.                                          *)
(***************************************************************************)
FullReported == reportOut # Pending /\ reportOut.status = "report"

EtihadHeading == TextLine("(plane) ETIHAD AIRWAYS -- MARCH 20 TO MARCH 31")
EtihadPlaceholder == TextLine("(plane) ETIHAD AIRWAYS -- No flights found for this date range.")

HasLine(lines, l) == \E i \in 1..Len(lines) : lines[i] = l
LineIndex(lines, l) == CHOOSE i \in 1..Len(lines) : lines[i] = l

\* the cells of the run of row lines that starts at position i
RECURSIVE RowsFrom(_, _)
RowsFrom(lines, i) ==
    IF i <= Len(lines) /\ lines[i].kind = "row"
    THEN <<lines[i].cells>> \o RowsFrom(lines, i + 1)
    ELSE <<>>

EtihadWord == << {"e", "E"}, {"t", "T"}, {"i", "I"}, {"h", "H"}, {"a", "A"}, {"d", "D"} >>

NamesEtihad(airline) ==
    LET chars == AirlineChars(airline) IN
    \E k \in 0..(Len(chars) - 6) : \A j \in 1..6 : chars[k + j] \in EtihadWord[j]

\* every (date, record) of the mapping, in encounter order
RECURSIVE Encountered(_)
Encountered(daily_raw) ==
    IF daily_raw = <<>> THEN <<>>
    ELSE [i \in 1..Len(daily_raw[1].flights) |->
             [date |-> daily_raw[1].date, f |-> daily_raw[1].flights[i]]]
         \o Encountered(Tail(daily_raw))

EtihadMatches == SelectSeq(Encountered(dailyRaw), LAMBDA e : NamesEtihad(e.f.airline))

\* the row a match must be in: after every cheaper match and every equally
\* priced match encountered before it
PriceRank(matches, i) ==
    1 + Cardinality({ j \in 1..Len(matches) :
                        \/ matches[j].f.price < matches[i].f.price
                        \/ matches[j].f.price = matches[i].f.price /\ j < i })

EtihadCells(e) ==
    <<e.date, Money(e.f.price), JoinText(e.f.duration), HoursText(e.f.layover_hours)>>

C13_EtihadSubsection ==
    FullReported =>
        LET lines == reportOut.text
            matches == EtihadMatches
        IN  IF matches = <<>>
            THEN HasLine(lines, EtihadPlaceholder) /\ ~HasLine(lines, EtihadHeading)
            ELSE /\ HasLine(lines, EtihadHeading)
                 /\ ~HasLine(lines, EtihadPlaceholder)
                 /\ LET at == LineIndex(lines, EtihadHeading)
                        rows == RowsFrom(lines, at + 6)
                    IN  /\ lines[at + 4] = HeaderLine(<<"Date", "Price", "Duration", "Layover">>)
                        /\ lines[at + 5] = BorderLine
                        /\ Len(rows) = Len(matches)
                        /\ \A i \in 1..Len(matches) :
                              rows[PriceRank(matches, i)] = EtihadCells(matches[i])
                        /\ lines[at + 6 + Len(rows)] = BorderLine

C13_Witness ==
    /\ FullReported
    /\ Len(dailyRaw) = 2
    /\ dailyRaw[1].date = DayDates[2]
    /\ dailyRaw[1].flights = <<Flt(AirlineText("EY", "Etihad Airways"), 500, Dur_1h0m, 0, "", 0),
                               Flt(AirlineText("EY", "ETIHAD AIRWAYS"), 300, Dur_2h0m, 1, "AUH", 15)>>
    /\ dailyRaw[2].flights = <<Flt(AirlineText("EY", "Etihad Airways"), 300, Dur_1h0m, 0, "", 0)>>
    /\ RowsFrom(reportOut.text, LineIndex(reportOut.text, EtihadHeading) + 6)
         = << <<DayDates[2], "300.00", "2h 0m", "1.5h">>,
              <<DayDates[1], "300.00", "1h 0m", "0.0h">>,
              <<DayDates[2], "500.00", "1h 0m", "0.0h">> >>

(***************************************************************************)
(* C14: build_daily_sections emits exactly one table per date key, in      *)
(* ascending date order whatever the insertion order; each table lists, in *)
(* their original order, the first 10 (or all, when fewer) of that day's   *)
(* records whose carrier code is not CX or AI; no table shows a            *)
(* denylisted carrier or more than 10 data rows.                           *)
(***************************************************************************)
DailyReported == reportOut # Pending /\ reportOut.status = "daily"

IsDateLine(l) == \E i \in 1..Len(DayDates) : l = TextLine("(calendar) " \o DayDates[i])
DateOfLine(l) == DayDates[CHOOSE i \in 1..Len(DayDates) : l = TextLine("(calendar) " \o DayDates[i])]

\* the tables of a per-day section read from position i on: each a date line,
\* border, header, border, data rows, border; an empty line between two tables
RECURSIVE ReadTables(_, _)
ReadTables(lines, i) ==
    IF i + 4 > Len(lines) THEN [ok |-> FALSE, tables |-> <<>>]
    ELSE LET rows == RowsFrom(lines, i + 4)
             end  == i + 4 + Len(rows)
             shaped == /\ IsDateLine(lines[i])
                       /\ lines[i + 1] = BorderLine
                       /\ lines[i + 2].kind = "header"
                       /\ lines[i + 3] = BorderLine
                       /\ end <= Len(lines)
                       /\ lines[end] = BorderLine
         IN  IF ~shaped THEN [ok |-> FALSE, tables |-> <<>>]
             ELSE LET here == <<[date |-> DateOfLine(lines[i]), rows |-> rows]>>
                  IN  IF end = Len(lines) THEN [ok |-> TRUE, tables |-> here]
                      ELSE IF lines[end + 1] # Blank THEN [ok |-> FALSE, tables |-> <<>>]
                      ELSE LET rest == ReadTables(lines, end + 2)
                           IN  [ok |-> rest.ok, tables |-> here \o rest.tables]

Denylist == {"CX", "AI"}

\* the positions, in a day's list, of the records of carriers not denylisted
AllowedAt(flights) == { i \in 1..Len(flights) : flights[i].airline[1] \notin Denylist }

\* the k-th of them
NthAllowed(flights, k) ==
    CHOOSE i \in AllowedAt(flights) : Cardinality({ j \in AllowedAt(flights) : j < i }) = k - 1

FlightsOn(date) == (CHOOSE i \in 1..Len(dailyRaw) : dailyRaw[i].date = date)

ListsFirstTen(table) ==
    LET flights == dailyRaw[FlightsOn(table.date)].flights
        n == Cardinality(AllowedAt(flights))
    IN  /\ Len(table.rows) = (IF n > 10 THEN 10 ELSE n)
        /\ \A k \in 1..Len(table.rows) :
              LET f == flights[NthAllowed(flights, k)]
              IN  /\ table.rows[k][2] = JoinText(f.airline)
                  /\ table.rows[k][3] = Money(f.price)
                  /\ table.rows[k][4] = JoinText(f.duration)
                  /\ table.rows[k][6] = f.layover_city

C14_OneTablePerDateAscending ==
    DailyReported =>
        IF dailyRaw = <<>> THEN reportOut.text = <<Blank>>
        ELSE LET read == ReadTables(reportOut.text, 1)
                 tables == read.tables
             IN  /\ read.ok
                 /\ Len(tables) = Len(dailyRaw)
                 /\ { tables[k].date : k \in 1..Len(tables) }
                      = { dailyRaw[k].date : k \in 1..Len(dailyRaw) }
                 /\ \A k \in 1..(Len(tables) - 1) :
                       DateIndex(tables[k].date) < DateIndex(tables[k + 1].date)
                 /\ \A k \in 1..Len(tables) :
                       /\ ListsFirstTen(tables[k])
                       /\ Len(tables[k].rows) <= 10
                       /\ \A r \in 1..Len(tables[k].rows) :
                             tables[k].rows[r][2] \notin Denylist

C14_Witness ==
    /\ DailyReported
    /\ Len(dailyRaw) = 2
    /\ dailyRaw[1].date = DayDates[2]
    /\ dailyRaw[2].date = DayDates[1]
    /\ Len(dailyRaw[1].flights) = 16
    /\ Cardinality(AllowedAt(dailyRaw[1].flights)) = 11
    /\ LET tables == ReadTables(reportOut.text, 1).tables
       IN  /\ Len(tables) = 2
           /\ tables[1].date = DayDates[1]
           /\ tables[2].date = DayDates[2]
           /\ Len(tables[2].rows) = 10
           /\ tables[2].rows[10][1] = "15"
           /\ tables[2].rows[10][3] = "15.00"

(***************************************************************************)
(* C15: every run of the pipeline that returns hands downstream a full     *)
(* report and three derived strings (best-day, top-3, per-day section);    *)
(* each derived string occurs verbatim and contiguously in the report, and *)
(* the report is the best-day section, the top-3 section, the Etihad       *)
(* subsection and the per-day section in that order, an empty line between *)
(* two sections; so also when no date returned a valid response.           *)
(***************************************************************************)
PipelineReturned == output # Pending /\ output.status # "raised"

\* part occurs in whole as a run of consecutive lines
OccursIn(part, whole) ==
    \E k \in 0..(Len(whole) - Len(part)) : SubSeq(whole, k + 1, k + Len(part)) = part

C15_ReportAndThreeParts ==
    PipelineReturned =>
        /\ output.status = "report"
        /\ OccursIn(output.best_day_ascii, output.final_report)
        /\ OccursIn(output.top3_ascii, output.final_report)
        /\ OccursIn(output.daily_ascii, output.final_report)
        /\ \E k \in 1..Len(output.final_report) :
              LET head == output.best_day_ascii \o <<Blank>> \o output.top3_ascii \o <<Blank>>
                  tail == <<Blank>> \o output.daily_ascii
                  n == Len(output.final_report)
              IN  /\ Len(head) + k + Len(tail) = n
                  /\ SubSeq(output.final_report, 1, Len(head)) = head
                  /\ output.final_report[Len(head) + 1] \in {EtihadHeading, EtihadPlaceholder}
                  /\ SubSeq(output.final_report, n - Len(tail) + 1, n) = tail

(***************************************************************************)
(* C16: every record extract_flights produces has a price, a duration in   *)
(* minutes, a layover and a stop count that are all >= 0; in particular    *)
(* the layover, second segment's departure minus first segment's arrival,  *)
(* is never negative whatever the two timestamps are.                      *)
(***************************************************************************)
C16_NonNegativeRecords ==
    Extracted =>
        \A i \in 1..Len(extracted.flights) :
            LET f == extracted.flights[i] IN
            /\ f.price >= 0
            /\ f.stops >= 0
            /\ f.layover_hours >= 0
            /\ ParseDurationToMinutes(f.duration).ok => Minutes(f) >= 0

(***************************************************************************)
(* C17, as claimed: the score is price/1000 + duration_minutes/1000 +      *)
(* layover_hours/10 and price dominates: of two ranked records with a      *)
(* layover between 0 and 6 hours, the one with the strictly lower price    *)
(* never has the higher score and never ranks after the other.             *)
(***************************************************************************)
Admitted(e) == 0 <= e.layover_hours /\ e.layover_hours <= LayoverCeiling

\* what duration and layover add to the price in the ordering: minutes plus
\* 100 per hour of layover
Secondary(e) == Minutes(e) + 10 * e.layover_hours

RankedPairs ==
    { pr \in (1..Len(summary.top3_overall)) \X (1..Len(summary.top3_overall)) :
        /\ Admitted(summary.top3_overall[pr[1]])
        /\ Admitted(summary.top3_overall[pr[2]])
        /\ summary.top3_overall[pr[1]].price < summary.top3_overall[pr[2]].price }

C17_PriceDominates ==
    RankReturned =>
        \A pr \in RankedPairs :
            /\ summary.top3_overall[pr[1]].score <= summary.top3_overall[pr[2]].score
            /\ pr[1] < pr[2]

(***************************************************************************)
(* C17, amended: the score is price/1000 + duration_minutes/1000 +         *)
(* layover_hours/10 (ordering by price + duration_minutes +                *)
(* 100*layover_hours); of two ranked records with a layover between 0 and  *)
(* 6 hours, the cheaper one has the strictly lower score and ranks before  *)
(* the other when its minutes + 100*layover_hours exceed the other's by    *)
(* less than the price difference, and has the strictly higher score and   *)
(* ranks after it when they exceed it by more.                             *)
(***************************************************************************)
C17_PriceWeighsLikeMinutes ==
    RankReturned =>
        /\ \A i \in 1..Len(summary.top3_overall) :
              LET e == summary.top3_overall[i]
              IN  e.score = e.price + Minutes(e) + 10 * e.layover_hours
        /\ \A pr \in RankedPairs :
              LET cheap == summary.top3_overall[pr[1]]
                  dear  == summary.top3_overall[pr[2]]
                  excess == Secondary(cheap) - Secondary(dear)
                  gap == dear.price - cheap.price
              IN  /\ excess < gap => (cheap.score < dear.score /\ pr[1] < pr[2])
                  /\ excess > gap => (cheap.score > dear.score /\ pr[1] > pr[2])

\* a cheaper record ranked after a dearer one, and a cheaper one ranked before
C17_Witness ==
    /\ RankReturned
    /\ \E pr \in RankedPairs : pr[1] > pr[2]
    /\ \E pr \in RankedPairs : pr[1] < pr[2]

(***************************************************************************)
(* Part 9: two invocations of detect_price_drop that nothing serializes.   *)
(*                                                                         *)
(* Each invocation loads the file, sets its date in its own copy, opens    *)
(* the file for writing (which empties it), dumps its copy and returns.    *)
(* The file starts well-formed and no write fails.  procs[i] is            *)
(*   d, p       the arguments of invocation i                              *)
(*   pc         "start", "loaded", "opened", "saved" or "done"             *)
(*   history    its local mapping                                          *)
(*   prev       what history.get(date_str) gave it                         *)
(*   afterOther the other invocation had returned when this one loaded     *)
(*   bothLoaded the other invocation had loaded when this one began saving *)
(***************************************************************************)
Procs == {1, 2}
Other(i) == 3 - i

TruncatedFile == FileWith(TRUE, "invalid", EmptyMap)

ConcurrentFiles == {AbsentFile} \cup {FileWith(TRUE, "map", m) : m \in MapsOver(Prices)}

InitConcurrent ==
    /\ TrackerIdle /\ RankingIdle /\ NormalizerIdle /\ PipelineIdle
    /\ DurationIdle /\ TableIdle /\ ReportIdle /\ ClientIdle
    /\ concFile \in ConcurrentFiles
    /\ \E d1 \in Dates, p1 \in Prices, p2 \in Prices : \E d2 \in Dates \ {d1} :
           procs = [i \in Procs |->
                      [d |-> IF i = 1 THEN d1 ELSE d2, p |-> IF i = 1 THEN p1 ELSE p2,
                       pc |-> "start", history |-> EmptyMap, prev |-> None,
                       afterOther |-> FALSE, bothLoaded |-> FALSE, ret |-> NoneResult]]

\* history = _load_price_history(); prev_price = history.get(date_str)
Load(i) ==
    /\ procs[i].pc = "start"
    /\ LET history == LoadPriceHistory(concFile).map
       IN  procs' = [procs EXCEPT ![i].pc = "loaded",
                                 ![i].history = history,
                                 ![i].prev = HistoryGet(history, procs[i].d),
                                 ![i].afterOther = (procs[Other(i)].pc = "done")]
    /\ UNCHANGED <<trackerVars, rankVars, normVars, pipeVars, durVars, tableVars, reportVars,
                   concFile, clientVars>>

\* history[date_str] = float(current_price); open(PRICE_HISTORY_FILE, "w")
OpenForWrite(i) ==
    /\ procs[i].pc = "loaded"
    /\ procs' = [procs EXCEPT ![i].pc = "opened",
                              ![i].history = HistoryPut(procs[i].history, procs[i].d, procs[i].p),
                              ![i].bothLoaded = (procs[Other(i)].pc # "start")]
    /\ concFile' = TruncatedFile
    /\ UNCHANGED <<trackerVars, rankVars, normVars, pipeVars, durVars, tableVars, reportVars,
                   clientVars>>

\* json.dump(history, f) and the close that flushes it.  On an empty file the
\* text becomes the content; on a file the other invocation has written since
\* this one opened it, the text overwrites the start of the other text, which
\* leaves this mapping or, when this text is the shorter one, no valid JSON
Dump(i) ==
    /\ procs[i].pc = "opened"
    /\ procs' = [procs EXCEPT ![i].pc = "saved"]
    /\ \/ concFile' = FileWith(TRUE, "map", procs[i].history)
       \/ /\ concFile.kind = "map"
          /\ concFile' = TruncatedFile
    /\ UNCHANGED <<trackerVars, rankVars, normVars, pipeVars, durVars, tableVars, reportVars,
                   clientVars>>

\* the comparison and the return
Compare(i) ==
    /\ procs[i].pc = "saved"
    /\ procs' = [procs EXCEPT ![i].pc = "done",
                              ![i].ret = IF procs[i].prev # None /\ IsDrop(procs[i].p, procs[i].prev)
                                         THEN DropMessage(procs[i].d, procs[i].prev, procs[i].p)
                                         ELSE NoneResult]
    /\ UNCHANGED <<trackerVars, rankVars, normVars, pipeVars, durVars, tableVars, reportVars,
                   concFile, clientVars>>

NextConcurrent == \E i \in Procs : Load(i) \/ OpenForWrite(i) \/ Dump(i) \/ Compare(i)

SpecConcurrent == InitConcurrent /\ [][NextConcurrent]_vars

(***************************************************************************)
(* C18, as claimed: when two invocations for two different dates both load *)
(* the file before either saves, the file they leave lacks the price of    *)
(* one of the two dates; when one invocation returns before the other      *)
(* loads, the file holds both dates with the prices observed.              *)
(***************************************************************************)
BothDone == procs # <<>> /\ \A i \in Procs : procs[i].pc = "done"

BothLoadedFirst == \A i \in Procs : procs[i].bothLoaded

Serialized == \E i \in Procs : procs[i].afterOther

\* the file holds the price invocation i observed for its date
HoldsUpdate(i) == StoredPrice(concFile, procs[i].d) = procs[i].p

C18_LostUpdateAlways ==
    BothDone =>
        /\ BothLoadedFirst => \E i \in Procs : ~HoldsUpdate(i)
        /\ Serialized => \A i \in Procs : HoldsUpdate(i)

(***************************************************************************)
(* C18, amended: when both invocations load before either saves, the file  *)
(* they leave has lost an update: it is the file one invocation alone      *)
(* would have left (or no mapping at all), so the other date has what it   *)
(* had before and the file lacks the other date's price unless it held     *)
(* that very price from the start; when one invocation returns before the  *)
(* other loads, the file holds both dates with the prices observed.        *)
(***************************************************************************)
C18_LostUpdateUnlessSerialized ==
    BothDone =>
        /\ BothLoadedFirst =>
              \E i \in Procs :
                  /\ \/ concFile.kind = "invalid"
                     \/ concFile.map = procs[i].history
                  /\ concFile.kind = "map" =>
                        HistoryGet(concFile.map, procs[Other(i)].d) = procs[Other(i)].prev
                  /\ procs[Other(i)].prev # procs[Other(i)].p => ~HoldsUpdate(Other(i))
        /\ Serialized => \A i \in Procs : HoldsUpdate(i)

\* both loaded first, both writes went through, and the file lacks a price
\* that an invocation observed
C18_Witness ==
    /\ BothDone
    /\ BothLoadedFirst
    /\ concFile.kind = "map"
    /\ HoldsUpdate(2)
    /\ ~HoldsUpdate(1)
    /\ procs[1].d \notin DOMAIN concFile.map

(***************************************************************************)
(* C19: in the pipeline the carrier denylist {CX, AI} and the layover      *)
(* ceiling of 6 hours are applied to each day's records before they are    *)
(* stored, so every record that reaches the ranking or a report section is *)
(* of a carrier outside the denylist with a layover of at most 6 hours,    *)
(* and the rows of each per-day table are exactly the first 10 records of  *)
(* that day's filtered list, numbered 1..k without gaps.                   *)
(***************************************************************************)
PipelineReported == output # Pending /\ output.status = "report"

\* the days the pipeline stores in all_days and daily_raw
StoredDays == CollectDays(responses, 1)

RowOfRecord(n, f) ==
    <<ToString(n), JoinText(f.airline), Money(f.price), JoinText(f.duration),
      ToString(f.stops), f.layover_city, HoursText(f.layover_hours), f.departure, f.arrival>>

\* the row lines of a string
RowCells(lines) == { lines[i].cells : i \in { j \in 1..Len(lines) : lines[j].kind = "row" } }

C19_FilteredBeforeStored ==
    PipelineReported =>
        LET days == StoredDays
            read == ReadTables(output.daily_ascii, 1)
        IN  /\ \A k \in 1..Len(days) : \A r \in 1..Len(days[k].flights) :
                  /\ days[k].flights[r].airline[1] \notin Denylist
                  /\ days[k].flights[r].layover_hours <= 60
            /\ \A cells \in RowCells(output.final_report) :
                  \A c \in 1..Len(cells) : cells[c] \notin Denylist \cup {"8.0h"}
            /\ read.ok
            /\ Len(read.tables) = Len(days)
            /\ \A k \in 1..Len(days) :
                  LET rows == read.tables[k].rows
                      n == Len(days[k].flights)
                  IN  /\ read.tables[k].date = days[k].date
                      /\ Len(rows) = (IF n > 10 THEN 10 ELSE n)
                      /\ \A r \in 1..Len(rows) : rows[r] = RowOfRecord(r, days[k].flights[r])

\* a day answered with 16 offers of which 11 pass the filters: a table of ten
\* rows numbered 1 to 10, the tenth being the fifteenth offer
C19_Witness ==
    /\ PipelineReported
    /\ responses[1] = BigResponse
    /\ Len(StoredDays[1].flights) = 11
    /\ LET rows == ReadTables(output.daily_ascii, 1).tables[1].rows
       IN  /\ Len(rows) = 10
           /\ rows[6][1] = "6"
           /\ rows[6][3] = "9.00"
           /\ rows[10][1] = "10"
           /\ rows[10][3] = "15.00"

(***************************************************************************)
(* Part 10: AmadeusClient.search_flights, step by step.                    *)
(*                                                                         *)
(* client is the object and the call in progress:                          *)
(*   access_token  None, or the number of the token held                   *)
(*   issued        how many tokens the token endpoint has issued           *)
(*   pc            where the call stands                                   *)
(*   header_token  the token in headers["Authorization"]                   *)
(*   status        the status code of the last search response (0: none)   *)
(*   result        what the call returned: "body", "None", or "raised"     *)
(*   held          a token was held when the call began                    *)
(*   first_status, first_token  the first request's response and token     *)
(*   auths, searches            requests made by the call so far           *)
(*   auth_failed   an authentication of the call was refused               *)
(* The status codes of the responses are the environment's choice.         *)
(***************************************************************************)
StatusOK == 200
StatusUnauthorized == 401
StatusServerError == 500
Statuses == {StatusOK, StatusUnauthorized, StatusServerError}

NewClient ==
    [access_token |-> None, issued |-> 0, pc |-> "idle", header_token |-> None,
     status |-> 0, result |-> "", held |-> FALSE, first_status |-> 0, first_token |-> None,
     auths |-> 0, searches |-> 0, auth_failed |-> FALSE]

\* authenticate(): a 200 from the token endpoint stores a fresh token, any
\* other status raises
Authenticate(c, ok, next) ==
    IF ok
    THEN [c EXCEPT !.access_token = c.issued + 1, !.issued = c.issued + 1,
                   !.auths = c.auths + 1, !.pc = next]
    ELSE [c EXCEPT !.auths = c.auths + 1, !.auth_failed = TRUE,
                   !.result = "raised", !.pc = "raised"]

\* the test that sends the call into its refresh-and-retry branch, taken on
\* every failure
NeedsRetryOnAnyFailure(status) == status # StatusOK

\* response.status_code == 401
NeedsRetry(status) == status = StatusUnauthorized

InitClient ==
    /\ TrackerIdle /\ RankingIdle /\ NormalizerIdle /\ PipelineIdle
    /\ DurationIdle /\ TableIdle /\ ReportIdle /\ ConcurrentIdle
    /\ client = NewClient
    /\ clientLog = <<>>

UnchangedByClient ==
    UNCHANGED <<trackerVars, rankVars, normVars, pipeVars, durVars, tableVars, reportVars,
                concVars>>

\* search_flights is called; the log keeps what the call before it did
StartCall ==
    /\ client.pc \in {"idle", "returned", "raised"}
    /\ Len(clientLog) < MaxSearchCalls
    /\ client.pc # "idle" => Len(clientLog) < MaxSearchCalls - 1
    /\ clientLog' = IF client.pc = "idle" THEN clientLog
                    ELSE Append(clientLog, [result |-> client.result, auths |-> client.auths,
                                            searches |-> client.searches])
    /\ client' = [client EXCEPT !.pc = "begin", !.status = 0, !.result = "",
                                !.held = (client.access_token # None),
                                !.header_token = None, !.first_status = 0,
                                !.first_token = None, !.auths = 0, !.searches = 0,
                                !.auth_failed = FALSE]
    /\ UnchangedByClient

\* if not self.access_token: self.authenticate(); then the headers are built
EnsureToken ==
    /\ client.pc = "begin"
    /\ \/ /\ client.access_token = None
          /\ \E ok \in BOOLEAN :
                LET c == Authenticate(client, ok, "request") IN
                client' = IF ok THEN [c EXCEPT !.header_token = c.access_token] ELSE c
       \/ /\ client.access_token # None
          /\ client' = [client EXCEPT !.pc = "request", !.header_token = client.access_token]
    /\ UNCHANGED clientLog
    /\ UnchangedByClient

\* response = requests.get(...), and the test for 401
SearchRequest ==
    /\ client.pc = "request"
    /\ \E status \in Statuses :
          client' = [client EXCEPT !.status = status, !.searches = client.searches + 1,
                                  !.first_status = status,
                                  !.first_token = client.header_token,
                                  !.pc = IF NeedsRetry(status) THEN "refresh" ELSE "decide"]
    /\ UNCHANGED clientLog
    /\ UnchangedByClient

\* self.authenticate(); headers["Authorization"] = the new token
Refresh ==
    /\ client.pc = "refresh"
    /\ \E ok \in BOOLEAN :
          LET c == Authenticate(client, ok, "retry") IN
          client' = IF ok THEN [c EXCEPT !.header_token = c.access_token] ELSE c
    /\ UNCHANGED clientLog
    /\ UnchangedByClient

\* response = requests.get(...) once more
RetryRequest ==
    /\ client.pc = "retry"
    /\ \E status \in Statuses :
          client' = [client EXCEPT !.status = status, !.searches = client.searches + 1,
                                  !.pc = "decide"]
    /\ UNCHANGED clientLog
    /\ UnchangedByClient

\* if response.status_code != 200: return None; return response.json()
Decide ==
    /\ client.pc = "decide"
    /\ client' = [client EXCEPT !.pc = "returned",
                                !.result = IF client.status # StatusOK THEN "None" ELSE "body"]
    /\ UNCHANGED clientLog
    /\ UnchangedByClient

NextClient == StartCall \/ EnsureToken \/ SearchRequest \/ Refresh \/ RetryRequest \/ Decide

SpecClient == InitClient /\ [][NextClient]_vars

(***************************************************************************)
(* C20, as claimed: one call of search_flights authenticates first only    *)
(* when no token is held, makes at most 2 search requests and at most 2    *)
(* authentications, and ends by returning the body if and only if the last *)
(* response has status 200 and by returning None otherwise.                *)
(***************************************************************************)
CallEnded == client # <<>> /\ client.pc \in {"returned", "raised"}

C20_ReturnsBodyOrNone ==
    CallEnded =>
        /\ client.searches <= 2
        /\ client.auths <= 2
        /\ client.result = "body" <=> client.status = StatusOK
        /\ client.status # StatusOK => client.result = "None"

(***************************************************************************)
(* C20, amended: one call authenticates first only when no token is held,  *)
(* issues the search request, and on a 401 re-authenticates once and       *)
(* re-issues the request once with the newly issued token, so it makes at  *)
(* most 2 search requests and at most 2 authentications; when every        *)
(* authentication it makes succeeds it returns the body if and only if the *)
(* last response has status 200 and None otherwise (a second 401           *)
(* included); when an authentication is refused it raises instead of       *)
(* returning.                                                              *)
(***************************************************************************)
C20_RetryOnceOrRaise ==
    client # <<>> =>
        /\ client.searches <= 2
        /\ client.auths <= 2
        /\ client.pc \in {"request", "refresh", "retry", "decide", "returned"} =>
              client.auths = (IF client.held THEN 0 ELSE 1)
                             + (IF client.pc = "retry" \/ client.searches = 2 THEN 1 ELSE 0)
        /\ (client.pc = "retry" \/ client.searches = 2) =>
              /\ client.first_status = StatusUnauthorized
              /\ client.header_token = client.access_token
              /\ client.header_token = client.issued
              /\ client.header_token # client.first_token
        /\ client.pc = "returned" =>
              /\ ~client.auth_failed
              /\ client.searches >= 1
              /\ client.searches = 1 => client.first_status # StatusUnauthorized
              /\ client.result = "body" <=> client.status = StatusOK
              /\ client.status # StatusOK => client.result = "None"
        /\ client.pc = "raised" <=> client.auth_failed
        /\ client.pc = "raised" => client.result = "raised"

\* a call that held a token, got 401, re-authenticated, retried with the new
\* token, got 401 again and returned None
C20_Witness ==
    /\ client # <<>>
    /\ client.pc = "returned"
    /\ client.held
    /\ client.searches = 2
    /\ client.auths = 1
    /\ client.status = StatusUnauthorized
    /\ client.result = "None"
    /\ client.header_token = 2
    /\ client.first_token = 1

====
